---- MODULE Spec2Model ----
(***************************************************************************)
(* ECDSA verification engine of note-crypto: field arithmetic (math.ts),   *)
(* the curve group law (curve.ts), the SEC1 / IEEE P1363 / PKIX codecs and *)
(* verifyECDSASignature (ecdsa/index.ts), over small prime-field curves.   *)
(*                                                                         *)
(* A call that throws is modelled by the record Throw(err); a call that    *)
(* returns v by Ok(v).  The affine identity is the value Null (the code's  *)
(* `null`).  BigInt `/` and `%` truncate towards zero.                      *)
(***************************************************************************)
EXTENDS Integers, Sequences, FiniteSets, TLC

VARIABLES pc, inp, loc, vret, orig, key, enc, dec, sigArgs, sig, sigBytes, sigDec,
          sigEnc, sigRound, pkPc, pkIn, pkLoc, pkRet, dsIn, dsRet, call, ret,
          heap, cpc, cin, cloc, cret

vars == <<pc, inp, loc, vret, orig, key, enc, dec, sigArgs, sig, sigBytes, sigDec,
          sigEnc, sigRound, pkPc, pkIn, pkLoc, pkRet, dsIn, dsRet, call, ret,
          heap, cpc, cin, cloc, cret>>

verifyVars == <<pc, inp, loc, vret, orig>>
sec1Vars == <<key, enc, dec>>
sigVars == <<sigArgs, sig, sigBytes, sigDec>>
p1363Vars == <<sigEnc, sigRound>>
pkixVars == <<pkPc, pkIn, pkLoc, pkRet, dsIn, dsRet>>
callVars == <<call, ret>>
concVars == <<heap, cpc, cin, cloc, cret>>
restVars == <<p1363Vars, pkixVars, callVars, concVars>>

(***************************************************************************)
(* Bounds of the model.                                                    *)
(***************************************************************************)
\* signature components r, s range over 1..n+SigSlack (values >= n included)
SigSlack == 1
\* constructor arguments range over -1..MaxSigArg
MaxSigArg == 8
\* hashes have 1..MaxHashLen bytes
MaxHashLen == 2
\* bytes after the first curve.size bytes of a hash range over 0..MaxTailByte
MaxTailByte == 1
\* the first curve.size bytes of a hash range over 0..n+HashSlack
HashSlack == 1
\* off-curve public keys have x in 0..OffCurveMaxX (on-curve keys: every x)
OffCurveMaxX == 1
\* byte values used when enumerating raw SEC1 input buffers
MaxRawByte == 4
\* raw SEC1 input buffers have 0..MaxRawLen bytes
MaxRawLen == 3
\* byte values and lengths used when enumerating raw IEEE P1363 buffers
MaxSigByte == 2
MaxSigLen == 5

Ok(v) == [thrown |-> FALSE, val |-> v]
Throw(e) == [thrown |-> TRUE, err |-> e]
Null == [isNull |-> TRUE]

Abs(v) == IF v < 0 THEN -v ELSE v

RECURSIVE Pow(_, _)
Pow(b, e) == IF e = 0 THEN 1 ELSE b * Pow(b, e - 1)

\* BigInt division and remainder (truncation towards zero)
TruncDiv(x, y) == IF (x >= 0) = (y >= 0) THEN Abs(x) \div Abs(y) ELSE -(Abs(x) \div Abs(y))
TruncRem(x, y) == x - y * TruncDiv(x, y)

(***************************************************************************)
(* math.ts                                                                 *)
(***************************************************************************)
euclideanMod(x, y) ==
    LET r == TruncRem(x, y)
    IN  IF r < 0 THEN r + y ELSE r

RECURSIVE inverseModLoop(_, _, _, _, _)
inverseModLoop(divisor, remainder, s2, s3, n) ==
    IF remainder # 0
    THEN LET dividend1 == divisor
             divisor1 == remainder
             remainder1 == TruncRem(dividend1, divisor1)
             quotient1 == TruncDiv(dividend1, divisor1)
         IN  inverseModLoop(divisor1, remainder1, s3, s2 - quotient1 * s3, n)
    ELSE IF divisor # 1
         THEN Throw("a and n is not relatively prime")
         ELSE IF s2 < 0 THEN Ok(s2 + n) ELSE Ok(s2)

\* inverseMod without the normalisation of a negative operand
inverseMod_KeepsNegativeOperand(a0, n0) ==
    LET n == IF n0 < 0 THEN n0 * (-1) ELSE n0
        a == a0
        remainder == TruncRem(a, n)
        quotient == TruncDiv(a, n)
    IN  inverseModLoop(n, remainder, 0, 1 - quotient * 0, n)

inverseMod(a0, n0) ==
    LET n == IF n0 < 0 THEN n0 * (-1) ELSE n0
        a == IF a0 < 0 THEN euclideanMod(a0, n) ELSE a0
        remainder == TruncRem(a, n)
        quotient == TruncDiv(a, n)
    IN  inverseModLoop(n, remainder, 0, 1 - quotient * 0, n)

RECURSIVE powmodLoop(_, _, _, _)
powmodLoop(res, x, y, p) ==
    IF y > 0
    THEN powmodLoop(IF y % 2 = 1 THEN euclideanMod(res * x, p) ELSE res,
                    euclideanMod(x * x, p), y \div 2, p)
    ELSE res

powmod(x, y, p) == powmodLoop(1, TruncRem(x, p), y, p)

\* p - 1 = q * 2^s with q odd
RECURSIVE tsFactor(_, _)
tsFactor(q, s) == IF q % 2 = 0 THEN tsFactor(q \div 2, s + 1) ELSE [q |-> q, s |-> s]

\* the first quadratic non-residue z >= 2
RECURSIVE tsNonResidue(_, _)
tsNonResidue(z, p) == IF powmod(z, (p - 1) \div 2, p) # p - 1 THEN tsNonResidue(z + 1, p) ELSE z

\* the inner search: the least i >= 1 with t^(2^i) = 1, or 0 when i reaches m
RECURSIVE tsFindI(_, _, _, _)
tsFindI(i, t, m, p) ==
    IF i <= m
    THEN IF i = m THEN 0
         ELSE IF powmod(t, Pow(2, i), p) = 1 THEN i ELSE tsFindI(i + 1, t, m, p)
    ELSE i

RECURSIVE tsMainLoop(_, _, _, _, _)
tsMainLoop(r, t, c, m, p) ==
    IF t = 1 THEN Ok(r)
    ELSE LET i == tsFindI(1, t, m, p)
         IN  IF i = 0 THEN Throw("Cannot find square root")
             ELSE LET b == powmod(c, Pow(2, m - i - 1), p)
                  IN  tsMainLoop(euclideanMod(r * b, p),
                                 euclideanMod(t * powmod(b, 2, p), p),
                                 powmod(b, 2, p), i, p)

tonelliShanks(n, p) ==
    IF p % 4 = 3 THEN Ok(powmod(n, (p + 1) \div 4, p))
    ELSE IF powmod(n, (p - 1) \div 2, p) = p - 1 THEN Throw("Cannot find square root")
    ELSE LET f == tsFactor(p - 1, 0)
             z == tsNonResidue(2, p)
         IN  tsMainLoop(powmod(n, (f.q + 1) \div 2, p), powmod(n, f.q, p),
                        powmod(z, f.q, p), f.s, p)

(***************************************************************************)
(* @oslojs/binary: big-endian conversion between integers and bytes        *)
(***************************************************************************)
RECURSIVE byteLengthOf(_, _)
byteLengthOf(value, byteLength) ==
    IF value > Pow(256, byteLength) - 1 THEN byteLengthOf(value, byteLength + 1) ELSE byteLength

bigIntBytes(value0) ==
    LET value == IF value0 < 0 THEN value0 * (-1) ELSE value0
        byteLength == byteLengthOf(value, 1)
    IN  [i \in 1..byteLength |-> (value \div Pow(256, byteLength - i)) % 256]

RECURSIVE bytesValue(_)
bytesValue(bytes) ==
    IF Len(bytes) = 0 THEN 0
    ELSE bytesValue(SubSeq(bytes, 1, Len(bytes) - 1)) * 256 + bytes[Len(bytes)]

bigIntFromBytes(bytes) ==
    IF Len(bytes) < 1 THEN Throw("Empty Uint8Array") ELSE Ok(bytesValue(bytes))

\* Uint8Array.prototype.slice(start, end) with 0 <= start, 0-based, end exclusive
slice(bytes, start, end) ==
    LET e == IF end > Len(bytes) THEN Len(bytes) ELSE end
    IN  IF start >= e THEN <<>> ELSE SubSeq(bytes, start + 1, e)

\* Uint8Array.prototype.set(src, offset): RangeError when src does not fit
setBytes(buf, src, offset) ==
    IF offset < 0 \/ offset + Len(src) > Len(buf)
    THEN Throw("RangeError")
    ELSE Ok([i \in 1..Len(buf) |->
                IF i > offset /\ i <= offset + Len(src) THEN src[i - offset] ELSE buf[i]])

zeroBytes(len) == [i \in 1..len |-> 0]

(***************************************************************************)
(* curve.ts                                                                *)
(***************************************************************************)
ECDSAPoint(x, y) == [x |-> x, y |-> y]
JacobianPoint(x, y, z) == [x |-> x, y |-> y, z |-> z]

isAtInfinity(point) == point.x = 0 /\ point.y = 1 /\ point.z = 0

pointAtInfinity == JacobianPoint(0, 1, 0)

ECDSANamedCurve(p, a, b, gx, gy, n, cofactor, size, objectIdentifier) ==
    [p |-> p, a |-> a, b |-> b, g |-> ECDSAPoint(gx, gy), n |-> n,
     cofactor |-> cofactor, size |-> size, objectIdentifier |-> objectIdentifier]

fromAffine(point) == JacobianPoint(point.x, point.y, 1)

toAffine(curve, point) ==
    IF isAtInfinity(point) THEN Ok(Null)
    ELSE LET inv == inverseMod(point.z, curve.p)
         IN  IF inv.thrown THEN inv
             ELSE LET inverseZ == inv.val
                      inverseZ2 == inverseZ * inverseZ
                  IN  Ok(ECDSAPoint(euclideanMod(point.x * inverseZ2, curve.p),
                                    euclideanMod(point.y * inverseZ2 * inverseZ, curve.p)))

doubleJacobian(curve, point) ==
    IF isAtInfinity(point) THEN point
    ELSE IF point.y = 0 THEN pointAtInfinity
    ELSE LET s == euclideanMod(4 * point.x * Pow(point.y, 2), curve.p)
             m == euclideanMod(3 * Pow(point.x, 2) + curve.a * Pow(point.z, 4), curve.p)
             resultx == euclideanMod(Pow(m, 2) - 2 * s, curve.p)
         IN  JacobianPoint(resultx,
                           euclideanMod(m * (s - resultx) - 8 * Pow(point.y, 4), curve.p),
                           euclideanMod(2 * point.y * point.z, curve.p))

\* the addition that takes equal x for opposite points without comparing y
addJacobian_EqualXIsOpposite(curve, point1, point2) ==
    IF isAtInfinity(point1) THEN point2
    ELSE IF isAtInfinity(point2) THEN point1
    ELSE LET point1zz == Pow(point1.z, 2)
             point2zz == Pow(point2.z, 2)
             u1 == euclideanMod(point1.x * point2zz, curve.p)
             u2 == euclideanMod(point2.x * point1zz, curve.p)
             s1 == euclideanMod(point1.y * point2zz * point2.z, curve.p)
             s2 == euclideanMod(point2.y * point1zz * point1.z, curve.p)
         IN  IF u1 = u2
             THEN pointAtInfinity
             ELSE LET h == u2 - u1
                      r == s2 - s1
                      point3x == euclideanMod(Pow(r, 2) - Pow(h, 3) - 2 * u1 * Pow(h, 2), curve.p)
                  IN  JacobianPoint(point3x,
                                    euclideanMod(r * (u1 * Pow(h, 2) - point3x) - s1 * Pow(h, 3), curve.p),
                                    euclideanMod(h * point1.z * point2.z, curve.p))

addJacobian(curve, point1, point2) ==
    IF isAtInfinity(point1) THEN point2
    ELSE IF isAtInfinity(point2) THEN point1
    ELSE LET point1zz == Pow(point1.z, 2)
             point2zz == Pow(point2.z, 2)
             u1 == euclideanMod(point1.x * point2zz, curve.p)
             u2 == euclideanMod(point2.x * point1zz, curve.p)
             s1 == euclideanMod(point1.y * point2zz * point2.z, curve.p)
             s2 == euclideanMod(point2.y * point1zz * point1.z, curve.p)
         IN  IF u1 = u2
             THEN IF s1 # s2 THEN pointAtInfinity ELSE doubleJacobian(curve, point1)
             ELSE LET h == u2 - u1
                      r == s2 - s1
                      point3x == euclideanMod(Pow(r, 2) - Pow(h, 3) - 2 * u1 * Pow(h, 2), curve.p)
                  IN  JacobianPoint(point3x,
                                    euclideanMod(r * (u1 * Pow(h, 2) - point3x) - s1 * Pow(h, 3), curve.p),
                                    euclideanMod(h * point1.z * point2.z, curve.p))

add(curve, point1, point2) ==
    toAffine(curve, addJacobian(curve, fromAffine(point1), fromAffine(point2)))

double(curve, point) == toAffine(curve, doubleJacobian(curve, fromAffine(point)))

\* k.toString(2).length for k >= 0
RECURSIVE bitLengthOf(_)
bitLengthOf(k) == IF k < 2 THEN 1 ELSE 1 + bitLengthOf(k \div 2)

RECURSIVE multiplyLoop(_, _, _, _, _, _)
\* the loop that reads every bit from the last byte of the scalar
multiplyLoop_ReadsLastByte(curve, kBytes, bitLength, i, res, temp) ==
    IF i < bitLength
    THEN LET byte == kBytes[Len(kBytes)]
             bit == (byte \div Pow(2, i % 8)) % 2
         IN  multiplyLoop(curve, kBytes, bitLength, i + 1,
                          IF bit = 1 THEN addJacobian(curve, res, temp) ELSE res,
                          doubleJacobian(curve, temp))
    ELSE res

multiplyLoop(curve, kBytes, bitLength, i, res, temp) ==
    IF i < bitLength
    THEN LET byte == kBytes[Len(kBytes) - (i \div 8)]
             bit == (byte \div Pow(2, i % 8)) % 2
         IN  multiplyLoop(curve, kBytes, bitLength, i + 1,
                          IF bit = 1 THEN addJacobian(curve, res, temp) ELSE res,
                          doubleJacobian(curve, temp))
    ELSE res

\* the scalar multiplication whose loop starts at bit 1
multiply_SkipsLowBit(curve, k, point) ==
    toAffine(curve, multiplyLoop(curve, bigIntBytes(k), bitLengthOf(k), 1,
                                 pointAtInfinity,
                                 doubleJacobian(curve, JacobianPoint(point.x, point.y, 1))))

multiply(curve, k, point) ==
    toAffine(curve, multiplyLoop(curve, bigIntBytes(k), bitLengthOf(k), 0,
                                 pointAtInfinity, JacobianPoint(point.x, point.y, 1)))

\* the curve equation y^2 = x^3 + ax + b (mod p)
satisfiesEquation(curve, point) ==
    euclideanMod(Pow(point.y, 2), curve.p) =
        euclideanMod(Pow(point.x, 3) + curve.a * point.x + curve.b, curve.p)

isOnCurve(curve, point) ==
    LET nP == multiply(curve, curve.n, point)
    IN  IF curve.cofactor # 1 /\ nP.thrown THEN nP
        ELSE IF curve.cofactor # 1 /\ nP.val # Null THEN Ok(FALSE)
        ELSE Ok(satisfiesEquation(curve, point))

(***************************************************************************)
(* ecdsa/index.ts: public keys and the SEC1 codec                          *)
(***************************************************************************)
ECDSAPublicKey(curve, x, y) == [curve |-> curve, x |-> x, y |-> y]

\* the encoder writing x right after the prefix instead of right-aligned
encodeSEC1Uncompressed_LeftAligned(publicKey) ==
    LET size == publicKey.curve.size
        bytes == [zeroBytes(1 + size * 2) EXCEPT ![1] = 4]
        xBytes == bigIntBytes(publicKey.x)
        yBytes == bigIntBytes(publicKey.y)
        withX == setBytes(bytes, xBytes, 1)
    IN  IF withX.thrown THEN withX
        ELSE setBytes(withX.val, yBytes, 1 + size * 2 - Len(yBytes))

encodeSEC1Uncompressed(publicKey) ==
    LET size == publicKey.curve.size
        bytes == [zeroBytes(1 + size * 2) EXCEPT ![1] = 4]
        xBytes == bigIntBytes(publicKey.x)
        yBytes == bigIntBytes(publicKey.y)
        withX == setBytes(bytes, xBytes, 1 + size - Len(xBytes))
    IN  IF withX.thrown THEN withX
        ELSE setBytes(withX.val, yBytes, 1 + size * 2 - Len(yBytes))

encodeSEC1Compressed(publicKey) ==
    LET size == publicKey.curve.size
        bytes == [zeroBytes(1 + size) EXCEPT ![1] = IF TruncRem(publicKey.y, 2) = 0 THEN 2 ELSE 3]
        xBytes == bigIntBytes(publicKey.x)
    IN  setBytes(bytes, xBytes, 1 + size - Len(xBytes))

\* the 0x02 / 0x03 branches: wantOdd is FALSE for 0x02 and TRUE for 0x03
decodeSEC1Compressed(curve, bytes, wantOdd) ==
    IF Len(bytes) # curve.size + 1 THEN Throw("Invalid public key")
    ELSE LET xv == bigIntFromBytes(slice(bytes, 1, Len(bytes)))
         IN  IF xv.thrown THEN xv
             ELSE LET x == xv.val
                      y2 == euclideanMod(Pow(x, 3) + curve.a * x + curve.b, curve.p)
                      root == tonelliShanks(y2, curve.p)
                  IN  IF root.thrown THEN root
                      ELSE IF TruncRem(root.val, 2) = (IF wantOdd THEN 1 ELSE 0)
                           THEN Ok(ECDSAPublicKey(curve, x, root.val))
                           ELSE Ok(ECDSAPublicKey(curve, x, curve.p - root.val))

\* the decoder without the length checks of the 0x04 branch
decodeSEC1PublicKey_NoLengthCheck(curve, bytes) ==
    IF Len(bytes) < 1 THEN Throw("Invalid public key")
    ELSE IF bytes[1] = 4
    THEN LET xv == bigIntFromBytes(slice(bytes, 1, curve.size + 1))
             yv == bigIntFromBytes(slice(bytes, curve.size + 1, Len(bytes)))
         IN  IF xv.thrown \/ yv.thrown THEN Ok(ECDSAPublicKey(curve, 0, 0))
             ELSE Ok(ECDSAPublicKey(curve, xv.val, yv.val))
    ELSE IF bytes[1] = 2 THEN decodeSEC1Compressed(curve, bytes, FALSE)
    ELSE IF bytes[1] = 3 THEN decodeSEC1Compressed(curve, bytes, TRUE)
    ELSE Throw("Unknown encoding format")

decodeSEC1PublicKey(curve, bytes) ==
    IF Len(bytes) < 1 THEN Throw("Invalid public key")
    ELSE IF bytes[1] = 4
    THEN IF Len(bytes) # curve.size * 2 + 1 THEN Throw("Invalid public key")
         ELSE LET xv == bigIntFromBytes(slice(bytes, 1, curve.size + 1))
                  yv == bigIntFromBytes(slice(bytes, curve.size + 1, Len(bytes)))
              IN  IF xv.thrown THEN xv
                  ELSE IF yv.thrown THEN yv
                  ELSE Ok(ECDSAPublicKey(curve, xv.val, yv.val))
    ELSE IF bytes[1] = 2 THEN decodeSEC1Compressed(curve, bytes, FALSE)
    ELSE IF bytes[1] = 3 THEN decodeSEC1Compressed(curve, bytes, TRUE)
    ELSE Throw("Unknown encoding format")

(***************************************************************************)
(* ecdsa/index.ts: signatures and the IEEE P1363 decoder                   *)
(***************************************************************************)
\* the constructor checking r only
ECDSASignature_ChecksROnly(r, s) ==
    IF r < 1 THEN Throw("Invalid signature") ELSE Ok([r |-> r, s |-> s])

ECDSASignature(r, s) ==
    IF r < 1 \/ s < 1 THEN Throw("Invalid signature") ELSE Ok([r |-> r, s |-> s])

\* the encoder writing r at the start of its half instead of right-aligned
encodeIEEEP1363_LeftAligned(signature, curve) ==
    LET rs == zeroBytes(curve.size * 2)
        rBytes == bigIntBytes(signature.r)
        sBytes == bigIntBytes(signature.s)
    IN  IF Len(rBytes) > curve.size THEN Throw("'r' is too large")
        ELSE IF Len(sBytes) > curve.size THEN Throw("'s' is too large")
        ELSE LET withR == setBytes(rs, rBytes, 0)
             IN  IF withR.thrown THEN withR
                 ELSE setBytes(withR.val, sBytes, curve.size * 2 - Len(sBytes))

encodeIEEEP1363(signature, curve) ==
    LET rs == zeroBytes(curve.size * 2)
        rBytes == bigIntBytes(signature.r)
        sBytes == bigIntBytes(signature.s)
    IN  IF Len(rBytes) > curve.size THEN Throw("'r' is too large")
        ELSE IF Len(sBytes) > curve.size THEN Throw("'s' is too large")
        ELSE LET withR == setBytes(rs, rBytes, curve.size - Len(rBytes))
             IN  IF withR.thrown THEN withR
                 ELSE setBytes(withR.val, sBytes, curve.size * 2 - Len(sBytes))

\* the decoder rejecting only buffers that are too short
decodeIEEEP1363ECDSASignature_Truncating(curve, bytes) ==
    IF Len(bytes) < curve.size * 2
    THEN Throw("Failed to decode signature: Invalid signature size")
    ELSE LET rv == bigIntFromBytes(slice(bytes, 0, curve.size))
             sv == bigIntFromBytes(slice(bytes, curve.size, curve.size * 2))
         IN  IF rv.thrown THEN rv
             ELSE IF sv.thrown THEN sv
             ELSE ECDSASignature(rv.val, sv.val)

decodeIEEEP1363ECDSASignature(curve, bytes) ==
    IF Len(bytes) # curve.size * 2
    THEN Throw("Failed to decode signature: Invalid signature size")
    ELSE LET rv == bigIntFromBytes(slice(bytes, 0, curve.size))
             sv == bigIntFromBytes(slice(bytes, curve.size, Len(bytes)))
         IN  IF rv.thrown THEN rv
             ELSE IF sv.thrown THEN sv
             ELSE ECDSASignature(rv.val, sv.val)

(***************************************************************************)
(* @oslojs/asn1: a value is kept as its tree; a DER document is the tree   *)
(* it parses to (or INVALID when it does not parse) and the number of      *)
(* bytes that follow the value                                             *)
(***************************************************************************)
ASN1Value(tag, items, oid, bytes, int) ==
    [tag |-> tag, items |-> items, oid |-> oid, bytes |-> bytes, int |-> int]

ASN1EncodableSequence(items) == ASN1Value("SEQUENCE", items, "", <<>>, 0)
ASN1ObjectIdentifier(oid) == ASN1Value("OBJECT IDENTIFIER", <<>>, oid, <<>>, 0)
ASN1BitString(bytes, length) == ASN1Value("BIT STRING", <<>>, "", bytes, length)
ASN1Integer(value) == ASN1Value("INTEGER", <<>>, "", <<>>, value)
ASN1Null == ASN1Value("NULL", <<>>, "", <<>>, 0)
ASN1Invalid == ASN1Value("INVALID", <<>>, "", <<>>, 0)

encodeASN1(asn1) == [root |-> asn1, leftover |-> 0]

parseASN1NoLeftoverBytes(der) ==
    IF der.root.tag = "INVALID" THEN Throw("ASN1ParseError")
    ELSE IF der.leftover > 0 THEN Throw("ASN1LeftoverBytesError")
    ELSE Ok(der.root)

sequence(asn1) ==
    IF asn1.tag = "SEQUENCE" THEN Ok(asn1.items) ELSE Throw("ASN1InvalidError")

objectIdentifier(asn1) ==
    IF asn1.tag = "OBJECT IDENTIFIER" THEN Ok(asn1.oid) ELSE Throw("ASN1InvalidError")

bitString(asn1) ==
    IF asn1.tag = "BIT STRING" THEN Ok(asn1.bytes) ELSE Throw("ASN1InvalidError")

integer(asn1) ==
    IF asn1.tag = "INTEGER" THEN Ok(asn1.int) ELSE Throw("ASN1InvalidError")

\* ASN1Sequence.at(index), 0-based
at(items, index) ==
    IF index < Len(items) THEN Ok(items[index + 1]) ELSE Throw("Invalid index")

(***************************************************************************)
(* ecdsa/index.ts: the PKIX codecs                                         *)
(***************************************************************************)
ECPublicKeyOID == "1.2.840.10045.2.1"

subjectPublicKeyInfo(curve, encoded) ==
    IF encoded.thrown THEN encoded
    ELSE Ok(encodeASN1(ASN1EncodableSequence(<<
                ASN1EncodableSequence(<<ASN1ObjectIdentifier(ECPublicKeyOID),
                                        ASN1ObjectIdentifier(curve.objectIdentifier)>>),
                ASN1BitString(encoded.val, Len(encoded.val) * 8)>>)))

encodePKIXUncompressed(publicKey) ==
    subjectPublicKeyInfo(publicKey.curve, encodeSEC1Uncompressed(publicKey))

encodePKIXCompressed(publicKey) ==
    subjectPublicKeyInfo(publicKey.curve, encodeSEC1Compressed(publicKey))

\* the decoder constructing the signature after the try block
decodePKIXECDSASignature_ConstructsOutsideTry(der) ==
    LET root == parseASN1NoLeftoverBytes(der)
        seq == sequence(root.val)
        r0 == at(seq.val, 0)
        r == integer(r0.val)
        s0 == at(seq.val, 1)
        s == integer(s0.val)
    IN  IF \/ root.thrown \/ seq.thrown
           \/ r0.thrown \/ r.thrown
           \/ s0.thrown \/ s.thrown
        THEN Throw("Failed to decode signature")
        ELSE ECDSASignature(r.val, s.val)

decodePKIXECDSASignature(der) ==
    LET root == parseASN1NoLeftoverBytes(der)
        seq == sequence(root.val)
        r0 == at(seq.val, 0)
        r == integer(r0.val)
        s0 == at(seq.val, 1)
        s == integer(s0.val)
    IN  IF \/ root.thrown \/ seq.thrown
           \/ r0.thrown \/ r.thrown
           \/ s0.thrown \/ s.thrown
           \/ ECDSASignature(r.val, s.val).thrown
        THEN Throw("Failed to decode signature")
        ELSE ECDSASignature(r.val, s.val)

\* the try block of decodePKIXECDSAPublicKey
parseSubjectPublicKeyInfo(der) ==
    LET root == parseASN1NoLeftoverBytes(der)
        spki == sequence(root.val)
        alg0 == at(spki.val, 0)
        alg == sequence(alg0.val)
        oid0 == at(alg.val, 0)
        oid == objectIdentifier(oid0.val)
        par0 == at(alg.val, 1)
        par == objectIdentifier(par0.val)
        pk0 == at(spki.val, 1)
        pk == bitString(pk0.val)
    IN  IF \/ root.thrown \/ spki.thrown
           \/ alg0.thrown \/ alg.thrown
           \/ oid0.thrown \/ oid.thrown
           \/ par0.thrown \/ par.thrown
           \/ pk0.thrown \/ pk.thrown
        THEN Throw("Failed to decode elliptic curve public key")
        ELSE Ok([algorithmIdentifierObjectIdentifier |-> oid.val,
                 algorithmIdentifierParameter |-> par.val,
                 asn1PublicKey |-> pk.val])

(***************************************************************************)
(* ecdsa/index.ts: verifyECDSASignature, statement by statement            *)
(***************************************************************************)
verifyQ(publicKey) == ECDSAPoint(publicKey.x, publicKey.y)

\* step 1: publicKey.curve.isOnCurve(q)
verifyIsOnCurve(publicKey) == isOnCurve(publicKey.curve, verifyQ(publicKey))

\* step 2: publicKey.curve.multiply(publicKey.curve.n, q)
verifySubgroup(publicKey) == multiply(publicKey.curve, publicKey.curve.n, verifyQ(publicKey))

\* steps 3-4 with a short hash padded with zeros on the right up to curve.size
verifyU1_PadsShortHash(publicKey, hash, signature) ==
    LET e == slice(hash \o zeroBytes(publicKey.curve.size), 0, publicKey.curve.size)
        ev == bigIntFromBytes(e)
        inv == inverseMod(signature.s, publicKey.curve.n)
    IN  IF ev.thrown THEN ev
        ELSE IF inv.thrown THEN inv
        ELSE Ok(euclideanMod(ev.val * inv.val, publicKey.curve.n))

\* steps 3-4: u1 = euclideanMod(bigIntFromBytes(e) * inverseMod(s, n), n)
verifyU1(publicKey, hash, signature) ==
    LET e == slice(hash, 0, publicKey.curve.size)
        ev == bigIntFromBytes(e)
        inv == inverseMod(signature.s, publicKey.curve.n)
    IN  IF ev.thrown THEN ev
        ELSE IF inv.thrown THEN inv
        ELSE Ok(euclideanMod(ev.val * inv.val, publicKey.curve.n))

\* step 6: u2 = euclideanMod(r * inverseMod(s, n), n)
\* step 6 refusing components that are not below n
verifyU2_RangeChecked(publicKey, signature) ==
    LET inv == inverseMod(signature.s, publicKey.curve.n)
    IN  IF signature.r >= publicKey.curve.n \/ signature.s >= publicKey.curve.n
        THEN Throw("Invalid signature")
        ELSE IF inv.thrown THEN inv
        ELSE Ok(euclideanMod(signature.r * inv.val, publicKey.curve.n))

verifyU2(publicKey, signature) ==
    LET inv == inverseMod(signature.s, publicKey.curve.n)
    IN  IF inv.thrown THEN inv
        ELSE Ok(euclideanMod(signature.r * inv.val, publicKey.curve.n))

\* step 9 without the reduction of r modulo n
verifyCompare_NoReduction(publicKey, signature, coord1) ==
    signature.r = coord1.x

\* step 9: euclideanMod(signature.r, n) === coord1.x
verifyCompare(publicKey, signature, coord1) ==
    euclideanMod(signature.r, publicKey.curve.n) = coord1.x

\* the whole call: Ok(TRUE), Ok(FALSE) or Throw(err)
verifyECDSASignature(publicKey, hash, signature) ==
    LET curve == publicKey.curve
        onCurve == verifyIsOnCurve(publicKey)
        nQ == verifySubgroup(publicKey)
        u1 == verifyU1(publicKey, hash, signature)
        u1G == multiply(curve, u1.val, curve.g)
        u2 == verifyU2(publicKey, signature)
        u2Q == multiply(curve, u2.val, verifyQ(publicKey))
        coord1 == add(curve, u1G.val, u2Q.val)
    IN  IF onCurve.thrown THEN onCurve
        ELSE IF ~onCurve.val THEN Ok(FALSE)
        ELSE IF nQ.thrown THEN nQ
        ELSE IF nQ.val # Null THEN Ok(FALSE)
        ELSE IF u1.thrown THEN u1
        ELSE IF u1G.thrown THEN u1G
        ELSE IF u1G.val = Null THEN Ok(FALSE)
        ELSE IF u2.thrown THEN u2
        ELSE IF u2Q.thrown THEN u2Q
        ELSE IF u2Q.val = Null THEN Ok(FALSE)
        ELSE IF coord1.thrown THEN coord1
        ELSE IF coord1.val = Null THEN Ok(FALSE)
        ELSE Ok(verifyCompare(publicKey, signature, coord1.val))

(***************************************************************************)
(* Curves of the model: instances of ECDSANamedCurve over small primes.    *)
(*   CurveA  y^2 = x^3 + 2x + 1 over GF(5),   7 points, n = 7,  h = 1      *)
(*   CurveB  y^2 = x^3 + 2x + 7 over GF(11),  7 points, n = 7,  h = 1      *)
(*   CurveC  y^2 = x^3 + 3x     over GF(5),  10 points, n = 5,  h = 2      *)
(*   CurveD  y^2 = x^3 + x + 7  over GF(257), n = 281, two-byte elements   *)
(*   CurveE  y^2 = x^3 + x + 17 over GF(263), n = 241, two-byte elements   *)
(* p = 5 and p = 257 are 1 mod 4; p = 11 and p = 263 are 3 mod 4.          *)
(***************************************************************************)
CurveA == ECDSANamedCurve(5, 2, 1, 0, 1, 7, 1, 1, "1.3.9999.1")
CurveB == ECDSANamedCurve(11, 2, 7, 6, 2, 7, 1, 1, "1.3.9999.2")
CurveC == ECDSANamedCurve(5, 3, 0, 1, 2, 5, 2, 1, "1.3.9999.3")
CurveD == ECDSANamedCurve(257, 1, 7, 1, 3, 281, 1, 2, "1.3.9999.4")
CurveE == ECDSANamedCurve(263, 1, 17, 0, 65, 241, 1, 2, "1.3.9999.5")

VerifyCurves == {CurveA, CurveB, CurveC}
CodecCurves == {CurveA, CurveB, CurveC, CurveD, CurveE}

(***************************************************************************)
(* Inputs                                                                  *)
(***************************************************************************)
None == [none |-> TRUE]

\* the concurrent callers of verifyECDSASignature
Procs == {1, 2}

NoLoc == [u1 |-> -1, u1G |-> Null, u2 |-> -1, u2Q |-> Null, coord1 |-> Null]

\* big-endian digits of v on exactly `size` bytes
fixedWidth(v, size) == [i \in 1..size |-> (v \div Pow(256, size - i)) % 256]

BytesUpTo(maxLen, maxByte) == UNION {[1..l -> 0..maxByte] : l \in 0..maxLen}

VerifyKeys(c) ==
    {ECDSAPublicKey(c, x, y) : <<x, y>> \in
        {xy \in (0..c.p) \X (0..c.p) :
            satisfiesEquation(c, ECDSAPoint(xy[1], xy[2])) \/ xy[1] <= OffCurveMaxX}}

HashByteRange(c, i) == IF i <= c.size THEN 0..(c.n + HashSlack) ELSE 0..MaxTailByte

Hashes(c) ==
    {h \in UNION {[1..l -> 0..(c.n + HashSlack)] : l \in 1..MaxHashLen} :
        \A i \in DOMAIN h : h[i] \in HashByteRange(c, i)}

SigRange(c) == 1..(c.n + SigSlack)

\* single-byte mutations of an accepted input (r and s are one byte wide here)
Mutations(i) ==
    LET c == i.publicKey.curve
    IN  {[inp |-> [i EXCEPT !.signature = ECDSASignature(r, i.signature.s).val], field |-> "r"] :
            r \in SigRange(c) \ {i.signature.r}}
        \cup
        {[inp |-> [i EXCEPT !.signature = ECDSASignature(i.signature.r, s).val], field |-> "s"] :
            s \in SigRange(c) \ {i.signature.s}}
        \cup
        UNION {{[inp |-> [i EXCEPT !.hash[k] = b], field |-> "hash"] :
                    b \in HashByteRange(c, k) \ {i.hash[k]}} : k \in DOMAIN i.hash}

(***************************************************************************)
(* verifyECDSASignature as a process: one action per statement             *)
(***************************************************************************)
Init ==
    /\ pc = "idle" /\ inp = None /\ loc = NoLoc /\ vret = "none" /\ orig = None
    /\ key = None /\ enc = None /\ dec = None
    /\ sigArgs = None /\ sig = None /\ sigBytes = None /\ sigDec = None
    /\ sigEnc = None /\ sigRound = None
    /\ pkPc = "idle" /\ pkIn = None /\ pkLoc = None /\ pkRet = None
    /\ dsIn = None /\ dsRet = None
    /\ call = None /\ ret = None
    /\ heap = None /\ cpc = [i \in Procs |-> "idle"] /\ cin = [i \in Procs |-> None]
    /\ cloc = [i \in Procs |-> None] /\ cret = [i \in Procs |-> "none"]

Start(i, o) ==
    /\ pc' = "isOnCurve" /\ inp' = i /\ loc' = NoLoc /\ vret' = "none" /\ orig' = o
    /\ UNCHANGED <<sec1Vars, sigVars, restVars>>

Finish(result) ==
    /\ pc' = "done" /\ vret' = result
    /\ UNCHANGED <<inp, loc, orig, sec1Vars, sigVars, restVars>>

Goto(label, l) ==
    /\ pc' = label /\ loc' = l
    /\ UNCHANGED <<inp, vret, orig, sec1Vars, sigVars, restVars>>

CallVerify ==
    /\ pc = "idle"
    /\ \E c \in VerifyCurves : \E k \in VerifyKeys(c), h \in Hashes(c), r \in SigRange(c), s \in SigRange(c) :
          Start([publicKey |-> k, hash |-> h, signature |-> ECDSASignature(r, s).val], None)

CallMutated ==
    /\ pc = "done" /\ vret = "true"
    /\ \E m \in Mutations(inp) : Start(m.inp, [inp |-> inp, field |-> m.field])

StepIsOnCurve ==
    /\ pc = "isOnCurve"
    /\ LET res == verifyIsOnCurve(inp.publicKey)
       IN  IF res.thrown THEN Finish("throw")
           ELSE IF ~res.val THEN Finish("false")
           ELSE Goto("subgroup", loc)

StepSubgroup ==
    /\ pc = "subgroup"
    /\ LET res == verifySubgroup(inp.publicKey)
       IN  IF res.thrown THEN Finish("throw")
           ELSE IF res.val # Null THEN Finish("false")
           ELSE Goto("u1", loc)

StepU1 ==
    /\ pc = "u1"
    /\ LET res == verifyU1(inp.publicKey, inp.hash, inp.signature)
       IN  IF res.thrown THEN Finish("throw")
           ELSE Goto("u1G", [loc EXCEPT !.u1 = res.val])

StepU1G ==
    /\ pc = "u1G"
    /\ LET res == multiply(inp.publicKey.curve, loc.u1, inp.publicKey.curve.g)
       IN  IF res.thrown THEN Finish("throw")
           ELSE IF res.val = Null THEN Finish("false")
           ELSE Goto("u2", [loc EXCEPT !.u1G = res.val])

StepU2 ==
    /\ pc = "u2"
    /\ LET res == verifyU2(inp.publicKey, inp.signature)
       IN  IF res.thrown THEN Finish("throw")
           ELSE Goto("u2Q", [loc EXCEPT !.u2 = res.val])

StepU2Q ==
    /\ pc = "u2Q"
    /\ LET res == multiply(inp.publicKey.curve, loc.u2, verifyQ(inp.publicKey))
       IN  IF res.thrown THEN Finish("throw")
           ELSE IF res.val = Null THEN Finish("false")
           ELSE Goto("add", [loc EXCEPT !.u2Q = res.val])

\* step 8 going on to read coord1.x when the sum is null
StepAdd_NoIdentityCheck ==
    /\ pc = "add"
    /\ LET res == add(inp.publicKey.curve, loc.u1G, loc.u2Q)
       IN  IF res.thrown \/ res.val = Null THEN Finish("throw")
           ELSE Goto("compare", [loc EXCEPT !.coord1 = res.val])

StepAdd ==
    /\ pc = "add"
    /\ LET res == add(inp.publicKey.curve, loc.u1G, loc.u2Q)
       IN  IF res.thrown THEN Finish("throw")
           ELSE IF res.val = Null THEN Finish("false")
           ELSE Goto("compare", [loc EXCEPT !.coord1 = res.val])

StepCompare ==
    /\ pc = "compare"
    /\ Finish(IF verifyCompare(inp.publicKey, inp.signature, loc.coord1) THEN "true" ELSE "false")

Next ==
    \/ CallVerify
    \/ CallMutated
    \/ StepIsOnCurve
    \/ StepSubgroup
    \/ StepU1
    \/ StepU1G
    \/ StepU2
    \/ StepU2Q
    \/ StepAdd
    \/ StepCompare

Spec == Init /\ [][Next]_vars

(***************************************************************************)
(* verifyECDSASignature on hashes shorter and longer than curve.size       *)
(***************************************************************************)
\* hashes have 1..MaxDigestLen bytes, each in 0..MaxDigestByte
MaxDigestLen == 3
MaxDigestByte == 1

\* CurveA with two-byte field elements
CurveF == ECDSANamedCurve(5, 2, 1, 0, 1, 7, 1, 2, "1.3.9999.6")

DigestCurves == {CurveA, CurveF}

Digests == BytesUpTo(MaxDigestLen, MaxDigestByte) \ {<<>>}

\* the key Q = G
DigestKeys(c) == {ECDSAPublicKey(c, c.g.x, c.g.y)}

CallVerifyDigest ==
    /\ pc = "idle"
    /\ \E c \in DigestCurves : \E k \in DigestKeys(c), h \in Digests, r \in SigRange(c), s \in SigRange(c) :
          Start([publicKey |-> k, hash |-> h, signature |-> ECDSASignature(r, s).val], None)

NextDigest ==
    \/ CallVerifyDigest
    \/ StepIsOnCurve
    \/ StepSubgroup
    \/ StepU1
    \/ StepU1G
    \/ StepU2
    \/ StepU2Q
    \/ StepAdd
    \/ StepCompare

SpecDigest == Init /\ [][NextDigest]_vars

(***************************************************************************)
(* verifyECDSASignature called with keys that pass steps 1 and 2           *)
(***************************************************************************)
\* keys on the curve whose multiple by n is the identity, coordinates in 0..p
SubgroupKeys(c) ==
    {k \in VerifyKeys(c) :
        /\ satisfiesEquation(c, verifyQ(k))
        /\ multiply(c, c.n, ECDSAPoint(k.x % c.p, k.y % c.p)) = Ok(Null)}

\* one-byte hashes
ShortHashes(c) == {<<b>> : b \in HashByteRange(c, 1)}

CallVerifySubgroupKey ==
    /\ pc = "idle"
    /\ \E c \in VerifyCurves : \E k \in SubgroupKeys(c), h \in ShortHashes(c), r \in SigRange(c), s \in SigRange(c) :
          Start([publicKey |-> k, hash |-> h, signature |-> ECDSASignature(r, s).val], None)

NextSubgroupKey ==
    \/ CallVerifySubgroupKey
    \/ StepIsOnCurve
    \/ StepSubgroup
    \/ StepU1
    \/ StepU1G
    \/ StepU2
    \/ StepU2Q
    \/ StepAdd
    \/ StepCompare

SpecSubgroupKey == Init /\ [][NextSubgroupKey]_vars

(***************************************************************************)
(* Concurrent calls of verifyECDSASignature on one shared public key       *)
(***************************************************************************)
\* the callers' r and s range over 1..MaxConcArg
MaxConcArg == 2

\* the callers' hashes
ConcHashes == {<<1>>, <<2>>}

ConcCurves == {CurveB, CurveC}

\* one statement of verifyECDSASignature: the next label, the locals and the
\* outcome, from the shared key, the caller's arguments and its locals
verifyStep(publicKey, hash, signature, label, l) ==
    LET curve == publicKey.curve
        k == ECDSAPublicKey(curve, l.q.x, l.q.y)
        return(result) == [pc |-> "done", loc |-> l, ret |-> result]
        goto(next, m) == [pc |-> next, loc |-> m, ret |-> "none"]
    IN  CASE label = "q" ->
               goto("isOnCurve", [l EXCEPT !.q = verifyQ(publicKey)])
          [] label = "isOnCurve" ->
               LET res == verifyIsOnCurve(k)
               IN  IF res.thrown THEN return("throw")
                   ELSE IF ~res.val THEN return("false")
                   ELSE goto("subgroup", l)
          [] label = "subgroup" ->
               LET res == verifySubgroup(k)
               IN  IF res.thrown THEN return("throw")
                   ELSE IF res.val # Null THEN return("false")
                   ELSE goto("u1", l)
          [] label = "u1" ->
               LET res == verifyU1(k, hash, signature)
               IN  IF res.thrown THEN return("throw")
                   ELSE goto("u1G", [l EXCEPT !.u1 = res.val])
          [] label = "u1G" ->
               LET res == multiply(curve, l.u1, curve.g)
               IN  IF res.thrown THEN return("throw")
                   ELSE IF res.val = Null THEN return("false")
                   ELSE goto("u2", [l EXCEPT !.u1G = res.val])
          [] label = "u2" ->
               LET res == verifyU2(k, signature)
               IN  IF res.thrown THEN return("throw")
                   ELSE goto("u2Q", [l EXCEPT !.u2 = res.val])
          [] label = "u2Q" ->
               LET res == multiply(curve, l.u2, l.q)
               IN  IF res.thrown THEN return("throw")
                   ELSE IF res.val = Null THEN return("false")
                   ELSE goto("add", [l EXCEPT !.u2Q = res.val])
          [] label = "add" ->
               LET res == add(curve, l.u1G, l.u2Q)
               IN  IF res.thrown THEN return("throw")
                   ELSE IF res.val = Null THEN return("false")
                   ELSE goto("compare", [l EXCEPT !.coord1 = res.val])
          [] label = "compare" ->
               return(IF verifyCompare(k, signature, l.coord1) THEN "true" ELSE "false")

\* the public key object (with its curve) that the callers share
ShareKey ==
    /\ heap = None
    /\ \E c \in ConcCurves : \E k \in VerifyKeys(c) : heap' = k
    /\ UNCHANGED <<cpc, cin, cloc, cret, verifyVars, sec1Vars, sigVars, p1363Vars,
                   pkixVars, callVars>>

ConcCall(i) ==
    /\ heap # None /\ cpc[i] = "idle"
    /\ \E h \in ConcHashes, r \in 1..MaxConcArg, s \in 1..MaxConcArg :
          cin' = [cin EXCEPT ![i] = [publicKey |-> heap, hash |-> h,
                                     signature |-> ECDSASignature(r, s).val]]
    /\ cpc' = [cpc EXCEPT ![i] = "q"]
    /\ cloc' = [cloc EXCEPT ![i] = [q |-> Null, u1 |-> -1, u1G |-> Null, u2 |-> -1,
                                    u2Q |-> Null, coord1 |-> Null]]
    /\ UNCHANGED <<heap, cret, verifyVars, sec1Vars, sigVars, p1363Vars, pkixVars, callVars>>

\* a statement that stores the reduced coordinates back into the key
ConcStep_ReducesKeyInPlace(i) ==
    /\ cpc[i] \notin {"idle", "done"}
    /\ LET nx == verifyStep(heap, cin[i].hash, cin[i].signature, cpc[i], cloc[i])
       IN  /\ cpc' = [cpc EXCEPT ![i] = nx.pc]
           /\ cloc' = [cloc EXCEPT ![i] = nx.loc]
           /\ cret' = [cret EXCEPT ![i] = nx.ret]
    /\ heap' = [heap EXCEPT !.x = @ % heap.curve.p, !.y = @ % heap.curve.p]
    /\ UNCHANGED <<cin, verifyVars, sec1Vars, sigVars, p1363Vars, pkixVars, callVars>>

\* caller i executes its next statement; the statement reads the shared key
\* and curve and assigns only the caller's locals
ConcStep(i) ==
    /\ cpc[i] \notin {"idle", "done"}
    /\ LET nx == verifyStep(heap, cin[i].hash, cin[i].signature, cpc[i], cloc[i])
       IN  /\ cpc' = [cpc EXCEPT ![i] = nx.pc]
           /\ cloc' = [cloc EXCEPT ![i] = nx.loc]
           /\ cret' = [cret EXCEPT ![i] = nx.ret]
    /\ heap' = heap
    /\ UNCHANGED <<cin, verifyVars, sec1Vars, sigVars, p1363Vars, pkixVars, callVars>>

NextConc ==
    \/ ShareKey
    \/ \E i \in Procs : ConcCall(i)
    \/ \E i \in Procs : ConcStep(i)

SpecConc == Init /\ [][NextConc]_vars

\* the process returns what the function returns
ProcessAgreesWithFunction ==
    pc = "done" =>
        LET res == verifyECDSASignature(inp.publicKey, inp.hash, inp.signature)
        IN  IF res.thrown THEN vret = "throw"
            ELSE vret = (IF res.val THEN "true" ELSE "false")

(***************************************************************************)
(* The SEC1 codec as a process: construct a key, encode it, decode bytes   *)
(***************************************************************************)
CodecKeys(c) ==
    {ECDSAPublicKey(c, x, y) : <<x, y>> \in
        {xy \in (0..c.p) \X (0..c.p) :
            satisfiesEquation(c, ECDSAPoint(xy[1], xy[2])) \/ xy[1] <= OffCurveMaxX}}

\* raw buffers: short ones over a small alphabet, and every compressed or
\* uncompressed-length buffer that carries a reduced x
RawBuffers(c) ==
    BytesUpTo(MaxRawLen, MaxRawByte)
    \cup {<<prefix>> \o fixedWidth(x, c.size) : prefix \in {2, 3}, x \in 0..(c.p - 1)}
    \cup {<<prefix>> \o fixedWidth(x, c.size) \o fixedWidth(0, c.size) : prefix \in 0..5, x \in 0..MaxRawByte}

NewKey ==
    /\ key = None /\ dec = None
    /\ \E c \in CodecCurves : \E k \in CodecKeys(c) : key' = k
    /\ UNCHANGED <<enc, dec, verifyVars, sigVars, restVars>>

EncodeSEC1Uncompressed ==
    /\ key # None /\ enc = None
    /\ enc' = [format |-> "uncompressed", res |-> encodeSEC1Uncompressed(key)]
    /\ UNCHANGED <<key, dec, verifyVars, sigVars, restVars>>

EncodeSEC1Compressed ==
    /\ key # None /\ enc = None
    /\ enc' = [format |-> "compressed", res |-> encodeSEC1Compressed(key)]
    /\ UNCHANGED <<key, dec, verifyVars, sigVars, restVars>>

\* decode what the encoder produced, for the key's curve
DecodeEncoded ==
    /\ key # None /\ enc # None /\ dec = None
    /\ ~enc.res.thrown
    /\ dec' = [curve |-> key.curve, bytes |-> enc.res.val,
               res |-> decodeSEC1PublicKey(key.curve, enc.res.val)]
    /\ UNCHANGED <<key, enc, verifyVars, sigVars, restVars>>

\* decode an arbitrary buffer
DecodeRaw ==
    /\ key = None /\ dec = None
    /\ \E c \in CodecCurves : \E bytes \in RawBuffers(c) :
          dec' = [curve |-> c, bytes |-> bytes, res |-> decodeSEC1PublicKey(c, bytes)]
    /\ UNCHANGED <<key, enc, verifyVars, sigVars, restVars>>

NextSEC1 ==
    \/ NewKey
    \/ EncodeSEC1Uncompressed
    \/ EncodeSEC1Compressed
    \/ DecodeEncoded
    \/ DecodeRaw

SpecSEC1 == Init /\ [][NextSEC1]_vars

(***************************************************************************)
(* Signatures as a process: construct, decode IEEE P1363                   *)
(***************************************************************************)
Construct ==
    /\ sigArgs = None
    /\ \E r \in (-1)..MaxSigArg, s \in (-1)..MaxSigArg :
          /\ sigArgs' = [r |-> r, s |-> s]
          /\ sig' = ECDSASignature(r, s)
    /\ UNCHANGED <<sigBytes, sigDec, verifyVars, sec1Vars, restVars>>

DecodeIEEEP1363 ==
    /\ sigBytes = None
    /\ \E c \in CodecCurves : \E bytes \in BytesUpTo(MaxSigLen, MaxSigByte) :
          /\ sigBytes' = [curve |-> c, bytes |-> bytes]
          /\ sigDec' = decodeIEEEP1363ECDSASignature(c, bytes)
    /\ UNCHANGED <<sigArgs, sig, verifyVars, sec1Vars, restVars>>

NextSig ==
    \/ Construct
    \/ DecodeIEEEP1363

SpecSig == Init /\ [][NextSig]_vars

(***************************************************************************)
(* Signatures as a process: construct, encode IEEE P1363, decode it again  *)
(***************************************************************************)
\* constructor arguments around the one-byte and two-byte limits
WideSigArgs == {0, 1, 2, 255, 256, 65535, 65536}

ConstructWide ==
    /\ sigArgs = None
    /\ \E r \in WideSigArgs, s \in WideSigArgs :
          /\ sigArgs' = [r |-> r, s |-> s]
          /\ sig' = ECDSASignature(r, s)
    /\ UNCHANGED <<sigBytes, sigDec, verifyVars, sec1Vars, restVars>>

EncodeIEEEP1363 ==
    /\ sig # None /\ ~sig.thrown /\ sigEnc = None
    /\ \E c \in CodecCurves :
          sigEnc' = [curve |-> c, res |-> encodeIEEEP1363(sig.val, c)]
    /\ UNCHANGED <<sigRound, sigVars, verifyVars, sec1Vars, pkixVars, callVars, concVars>>

DecodeEncodedSignature ==
    /\ sigEnc # None /\ ~sigEnc.res.thrown /\ sigRound = None
    /\ sigRound' = decodeIEEEP1363ECDSASignature(sigEnc.curve, sigEnc.res.val)
    /\ UNCHANGED <<sigEnc, sigVars, verifyVars, sec1Vars, pkixVars, callVars, concVars>>

NextP1363 ==
    \/ ConstructWide
    \/ EncodeIEEEP1363
    \/ DecodeEncodedSignature

SpecP1363 == Init /\ [][NextP1363]_vars

(***************************************************************************)
(* The PKIX decoders as processes: decodePKIXECDSAPublicKey statement by   *)
(* statement, decodePKIXECDSASignature as one step                         *)
(***************************************************************************)
\* candidate lists have 0..MaxCandidates curves
MaxCandidates == 2
\* INTEGER elements of signature documents range over -1..MaxDerInt
MaxDerInt == 2
\* signature documents are SEQUENCEs of 0..MaxDerItems elements
MaxDerItems == 3

RSAEncryptionOID == "1.2.840.113549.1.1.1"
UnknownCurveOID == "1.3.9999.9"

\* a different curve registered under CurveA's object identifier
CurveATwin == ECDSANamedCurve(11, 2, 7, 6, 2, 7, 1, 1, "1.3.9999.1")

PKIXCurves == {CurveA, CurveB, CurveC}

CandidateLists == UNION {[1..l -> PKIXCurves \cup {CurveATwin}] : l \in 0..MaxCandidates}

\* reduced on-curve keys
PKIXKeys == UNION {{k \in CodecKeys(c) :
                        /\ k.x < c.p /\ k.y < c.p
                        /\ satisfiesEquation(c, ECDSAPoint(k.x, k.y))} : c \in PKIXCurves}

KeyEncodings ==
    {encodeSEC1Uncompressed(k).val : k \in PKIXKeys}
    \cup {encodeSEC1Compressed(k).val : k \in PKIXKeys}
    \cup {<<>>, <<5, 0>>}

\* SubjectPublicKeyInfo documents, well formed or not
PublicKeyDocuments ==
    LET algorithms == {ASN1EncodableSequence(<<ASN1ObjectIdentifier(a), par>>) :
                          a \in {ECPublicKeyOID, RSAEncryptionOID},
                          par \in {ASN1ObjectIdentifier(c.objectIdentifier) : c \in PKIXCurves}
                                  \cup {ASN1ObjectIdentifier(UnknownCurveOID), ASN1Null}}
                      \cup {ASN1EncodableSequence(<<ASN1ObjectIdentifier(ECPublicKeyOID)>>),
                            ASN1Integer(1)}
        keys == {ASN1BitString(b, Len(b) * 8) : b \in KeyEncodings} \cup {ASN1Integer(1)}
        wellFormed == {ASN1EncodableSequence(<<alg, k>>) : alg \in algorithms, k \in keys}
        short == {ASN1EncodableSequence(<<alg>>) : alg \in algorithms}
    IN  {encodeASN1(v) : v \in wellFormed \cup short \cup {ASN1Integer(1), ASN1Invalid}}
        \cup {[root |-> v, leftover |-> 1] :
                 v \in {w \in wellFormed : w.items[2].bytes = <<4, 0, 1>>}}

SignatureDocuments ==
    LET elements == {ASN1Integer(v) : v \in (-1)..MaxDerInt}
                    \cup {ASN1Null, ASN1EncodableSequence(<<>>)}
        seqs == {ASN1EncodableSequence(items) :
                    items \in UNION {[1..l -> elements] : l \in 0..MaxDerItems}}
    IN  {[root |-> v, leftover |-> k] : v \in seqs \cup {ASN1Integer(1), ASN1Invalid}, k \in {0, 1}}

PkFinish(result) ==
    /\ pkPc' = "done" /\ pkRet' = result
    /\ UNCHANGED <<pkIn, pkLoc, dsIn, dsRet, verifyVars, sec1Vars, sigVars, p1363Vars,
                   callVars, concVars>>

PkGoto(label, l) ==
    /\ pkPc' = label /\ pkLoc' = l
    /\ UNCHANGED <<pkIn, pkRet, dsIn, dsRet, verifyVars, sec1Vars, sigVars, p1363Vars,
                   callVars, concVars>>

CallDecodePKIXPublicKey ==
    /\ pkPc = "idle" /\ dsIn = None
    /\ \E der \in PublicKeyDocuments, curves \in CandidateLists :
          pkIn' = [bytes |-> der, curves |-> curves]
    /\ pkPc' = "parse"
    /\ UNCHANGED <<pkLoc, pkRet, dsIn, dsRet, verifyVars, sec1Vars, sigVars, p1363Vars,
                   callVars, concVars>>

PkParse ==
    /\ pkPc = "parse"
    /\ LET parsed == parseSubjectPublicKeyInfo(pkIn.bytes)
       IN  IF parsed.thrown THEN PkFinish(parsed)
           ELSE PkGoto("checkAlgorithm", parsed.val)

\* the decoder going on to the curves whatever the algorithm is
PkCheckAlgorithm_Skipped ==
    /\ pkPc = "checkAlgorithm"
    /\ PkGoto("matchCurves", [fields |-> pkLoc, i |-> 1])

PkCheckAlgorithm ==
    /\ pkPc = "checkAlgorithm"
    /\ IF pkLoc.algorithmIdentifierObjectIdentifier # ECPublicKeyOID
       THEN PkFinish(Throw("Invalid algorithm"))
       ELSE PkGoto("matchCurves", [fields |-> pkLoc, i |-> 1])

\* one iteration of the loop over the candidate curves
PkMatchCurve ==
    /\ pkPc = "matchCurves"
    /\ IF pkLoc.i > Len(pkIn.curves) THEN PkFinish(Throw("No matching curves"))
       ELSE IF pkLoc.fields.algorithmIdentifierParameter = pkIn.curves[pkLoc.i].objectIdentifier
       THEN PkGoto("decodeSEC1", pkLoc)
       ELSE PkGoto("matchCurves", [pkLoc EXCEPT !.i = @ + 1])

PkDecodeSEC1 ==
    /\ pkPc = "decodeSEC1"
    /\ PkFinish(decodeSEC1PublicKey(pkIn.curves[pkLoc.i], pkLoc.fields.asn1PublicKey))

DecodePKIXSignature ==
    /\ pkPc = "idle" /\ dsIn = None
    /\ \E der \in SignatureDocuments :
          /\ dsIn' = der
          /\ dsRet' = decodePKIXECDSASignature(der)
    /\ UNCHANGED <<pkPc, pkIn, pkLoc, pkRet, verifyVars, sec1Vars, sigVars, p1363Vars,
                   callVars, concVars>>

NextPKIX ==
    \/ CallDecodePKIXPublicKey
    \/ PkParse
    \/ PkCheckAlgorithm
    \/ PkMatchCurve
    \/ PkDecodeSEC1
    \/ DecodePKIXSignature

SpecPKIX == Init /\ [][NextPKIX]_vars

(***************************************************************************)
(* verifyECDSASignature called with any key and a one-byte hash            *)
(***************************************************************************)
CallVerifyShortHash ==
    /\ pc = "idle"
    /\ \E c \in VerifyCurves : \E k \in VerifyKeys(c), h \in ShortHashes(c), r \in SigRange(c), s \in SigRange(c) :
          Start([publicKey |-> k, hash |-> h, signature |-> ECDSASignature(r, s).val], None)

NextShortHash ==
    \/ CallVerifyShortHash
    \/ StepIsOnCurve
    \/ StepSubgroup
    \/ StepU1
    \/ StepU1G
    \/ StepU2
    \/ StepU2Q
    \/ StepAdd
    \/ StepCompare

SpecShortHash == Init /\ [][NextShortHash]_vars

(***************************************************************************)
(* Calls of the curve operations and of the field arithmetic               *)
(***************************************************************************)
\* scalars range over 0..MaxScalar and WideScalars
MaxScalar == 16
\* moduli of tonelliShanks are the odd primes up to MaxPrime
MaxPrime == 23

\* affine points that satisfy the curve equation, coordinates in 0..p
CurvePoints(c) ==
    {ECDSAPoint(xy[1], xy[2]) : xy \in
        {xy \in (0..c.p) \X (0..c.p) : satisfiesEquation(c, ECDSAPoint(xy[1], xy[2]))}}

OddPrimes == {q \in 3..MaxPrime : \A d \in 2..(q - 1) : q % d # 0}

\* scalars of two bytes
WideScalars == {255, 256, 257, 511}

Scalars == (0..MaxScalar) \cup WideScalars

Multiply ==
    /\ call = None
    /\ \E c \in VerifyCurves : \E point \in CurvePoints(c) : \E k \in Scalars :
          /\ call' = [op |-> "multiply", curve |-> c, k |-> k, point |-> point]
          /\ ret' = multiply(c, k, point)
    /\ UNCHANGED <<verifyVars, sec1Vars, sigVars, p1363Vars, pkixVars, concVars>>

\* the result of the previous add, double or multiply when it is a point
Returned ==
    /\ call # None /\ ret # None
    /\ call.op \in {"add", "double", "multiplyLoop"}
    /\ ~ret.thrown /\ ret.val # Null

\* the first operand of a call on curve c: any point of the curve in the
\* first call, the point the previous call returned in a later call
Operands(c) ==
    IF call = None THEN CurvePoints(c)
    ELSE IF Returned /\ call.curve = c THEN {ret.val} ELSE {}

\* Jacobian operands: the identity, the points of the curve with Z = 1 and
\* their doubles
JacobianOperands(c) ==
    {pointAtInfinity}
        \cup {fromAffine(point) : point \in CurvePoints(c)}
        \cup {doubleJacobian(c, fromAffine(point)) : point \in CurvePoints(c)}

Add ==
    /\ \E c \in VerifyCurves : \E point1 \in Operands(c), point2 \in CurvePoints(c) :
          LET jacobian == addJacobian(c, fromAffine(point1), fromAffine(point2))
          IN  /\ call' = [op |-> "add", curve |-> c, point1 |-> point1, point2 |-> point2,
                          jacobian |-> jacobian]
              /\ ret' = toAffine(c, jacobian)
    /\ UNCHANGED <<verifyVars, sec1Vars, sigVars, p1363Vars, pkixVars, concVars>>

AddJacobian ==
    /\ call = None
    /\ \E c \in VerifyCurves : \E point1 \in JacobianOperands(c), point2 \in JacobianOperands(c) :
          /\ call' = [op |-> "addJacobian", curve |-> c, point1 |-> point1, point2 |-> point2]
          /\ ret' = Ok(addJacobian(c, point1, point2))
    /\ UNCHANGED <<verifyVars, sec1Vars, sigVars, p1363Vars, pkixVars, concVars>>

Double ==
    /\ \E c \in VerifyCurves : \E point \in Operands(c) :
          LET jacobian == doubleJacobian(c, fromAffine(point))
          IN  /\ call' = [op |-> "double", curve |-> c, point |-> point, jacobian |-> jacobian]
              /\ ret' = toAffine(c, jacobian)
    /\ UNCHANGED <<verifyVars, sec1Vars, sigVars, p1363Vars, pkixVars, concVars>>

DoubleJacobian ==
    /\ call = None
    /\ \E c \in VerifyCurves : \E point \in JacobianOperands(c) :
          /\ call' = [op |-> "doubleJacobian", curve |-> c, point |-> point]
          /\ ret' = Ok(doubleJacobian(c, point))
    /\ UNCHANGED <<verifyVars, sec1Vars, sigVars, p1363Vars, pkixVars, concVars>>

\* multiply, one iteration of its loop at a time
MultiplyStart ==
    /\ \E c \in VerifyCurves : \E point \in Operands(c) : \E k \in Scalars :
          call' = [op |-> "multiplyLoop", curve |-> c, k |-> k, point |-> point,
                   kBytes |-> bigIntBytes(k), bitLength |-> bitLengthOf(k), i |-> 0,
                   res |-> pointAtInfinity, temp |-> JacobianPoint(point.x, point.y, 1)]
    /\ ret' = None
    /\ UNCHANGED <<verifyVars, sec1Vars, sigVars, p1363Vars, pkixVars, concVars>>

MultiplyIteration ==
    /\ call # None /\ call.op = "multiplyLoop" /\ ret = None
    /\ call.i < call.bitLength
    /\ LET byte == call.kBytes[Len(call.kBytes) - (call.i \div 8)]
           bit == (byte \div Pow(2, call.i % 8)) % 2
       IN  call' = [call EXCEPT
                       !.res = IF bit = 1 THEN addJacobian(call.curve, call.res, call.temp)
                               ELSE call.res,
                       !.temp = doubleJacobian(call.curve, call.temp),
                       !.i = call.i + 1]
    /\ UNCHANGED <<ret, verifyVars, sec1Vars, sigVars, p1363Vars, pkixVars, concVars>>

MultiplyReturn ==
    /\ call # None /\ call.op = "multiplyLoop" /\ ret = None
    /\ ~(call.i < call.bitLength)
    /\ ret' = toAffine(call.curve, call.res)
    /\ UNCHANGED <<call, verifyVars, sec1Vars, sigVars, p1363Vars, pkixVars, concVars>>

\* every pair of coordinates in 0..p, on the curve or not
AffinePoints(c) == {ECDSAPoint(xy[1], xy[2]) : xy \in (0..c.p) \X (0..c.p)}

\* isOnCurve: the subgroup test when the cofactor is not 1, then the equation
\* isOnCurve running the subgroup test whatever the cofactor
IsOnCurve_AlwaysMultiplies ==
    /\ call = None
    /\ \E c \in VerifyCurves : \E point \in AffinePoints(c) :
          call' = [op |-> "isOnCurve", curve |-> c, point |-> point, at |-> "multiply"]
    /\ ret' = None
    /\ UNCHANGED <<verifyVars, sec1Vars, sigVars, p1363Vars, pkixVars, concVars>>

IsOnCurve ==
    /\ call = None
    /\ \E c \in VerifyCurves : \E point \in AffinePoints(c) :
          call' = [op |-> "isOnCurve", curve |-> c, point |-> point,
                   at |-> IF c.cofactor # 1 THEN "multiply" ELSE "equation"]
    /\ ret' = None
    /\ UNCHANGED <<verifyVars, sec1Vars, sigVars, p1363Vars, pkixVars, concVars>>

IsOnCurveMultiply ==
    /\ call # None /\ call.op = "isOnCurve" /\ ret = None /\ call.at = "multiply"
    /\ LET nP == multiply(call.curve, call.curve.n, call.point)
       IN  IF nP.thrown THEN ret' = nP /\ call' = [call EXCEPT !.at = "multiplied"]
           ELSE IF nP.val # Null THEN ret' = Ok(FALSE) /\ call' = [call EXCEPT !.at = "multiplied"]
           ELSE ret' = None /\ call' = [call EXCEPT !.at = "multiplied, equation"]
    /\ UNCHANGED <<verifyVars, sec1Vars, sigVars, p1363Vars, pkixVars, concVars>>

IsOnCurveEquation ==
    /\ call # None /\ call.op = "isOnCurve" /\ ret = None
    /\ call.at \in {"equation", "multiplied, equation"}
    /\ ret' = Ok(satisfiesEquation(call.curve, call.point))
    /\ UNCHANGED <<call, verifyVars, sec1Vars, sigVars, p1363Vars, pkixVars, concVars>>

NextGroup ==
    \/ Multiply
    \/ Add
    \/ AddJacobian
    \/ Double
    \/ DoubleJacobian
    \/ MultiplyStart
    \/ MultiplyIteration
    \/ MultiplyReturn
    \/ IsOnCurve
    \/ IsOnCurveMultiply
    \/ IsOnCurveEquation

SpecGroup == Init /\ [][NextGroup]_vars

\* tonelliShanks applied to the square of x
TonelliShanksOfSquare ==
    /\ call = None
    /\ \E q \in OddPrimes : \E x \in (-q)..(2 * q) :
          /\ call' = [op |-> "tonelliShanks", x |-> x, n |-> euclideanMod(x * x, q), p |-> q]
          /\ ret' = tonelliShanks(euclideanMod(x * x, q), q)
    /\ UNCHANGED <<verifyVars, sec1Vars, sigVars, p1363Vars, pkixVars, concVars>>

\* tonelliShanks applied to a reduced operand
TonelliShanks ==
    /\ call = None
    /\ \E q \in OddPrimes : \E n \in 0..(q - 1) :
          /\ call' = [op |-> "tonelliShanksOf", n |-> n, p |-> q]
          /\ ret' = tonelliShanks(n, q)
    /\ UNCHANGED <<verifyVars, sec1Vars, sigVars, p1363Vars, pkixVars, concVars>>

\* moduli of inverseMod range over -MaxModulus..MaxModulus without 0, its
\* operands over -2 * MaxModulus..2 * MaxModulus
MaxModulus == 12

InverseMod ==
    /\ call = None
    /\ \E n \in ((-MaxModulus)..MaxModulus) \ {0} : \E a \in (-2 * MaxModulus)..(2 * MaxModulus) :
          /\ call' = [op |-> "inverseMod", a |-> a, n |-> n]
          /\ ret' = inverseMod(a, n)
    /\ UNCHANGED <<verifyVars, sec1Vars, sigVars, p1363Vars, pkixVars, concVars>>

NextMath ==
    \/ TonelliShanksOfSquare
    \/ TonelliShanks
    \/ InverseMod

SpecMath == Init /\ [][NextMath]_vars

(***************************************************************************)
(* tonelliShanks, one loop iteration at a time                             *)
(***************************************************************************)
TsCall ==
    /\ call = None
    /\ \E p \in OddPrimes : \E n \in 0..(p - 1) :
          call' = [op |-> "tonelliShanksLoop", n |-> n, p |-> p, at |-> "start",
                   q |-> 0, s |-> 0, z |-> 0, r |-> 0, t |-> 0, c |-> 0, m |-> 0,
                   i |-> 0, b |-> 0, rounds |-> 0]
    /\ ret' = None
    /\ UNCHANGED <<verifyVars, sec1Vars, sigVars, p1363Vars, pkixVars, concVars>>

\* the p = 3 (mod 4) return, the Euler criterion, the start of the factoring
TsStart ==
    /\ call # None /\ call.op = "tonelliShanksLoop" /\ call.at = "start"
    /\ IF call.p % 4 = 3
       THEN /\ ret' = Ok(powmod(call.n, (call.p + 1) \div 4, call.p))
            /\ call' = [call EXCEPT !.at = "done"]
       ELSE IF powmod(call.n, (call.p - 1) \div 2, call.p) = call.p - 1
       THEN /\ ret' = Throw("Cannot find square root")
            /\ call' = [call EXCEPT !.at = "done"]
       ELSE /\ ret' = ret
            /\ call' = [call EXCEPT !.at = "factor", !.q = call.p - 1, !.s = 0]
    /\ UNCHANGED <<verifyVars, sec1Vars, sigVars, p1363Vars, pkixVars, concVars>>

\* while (q % 2n === 0n)
TsFactor ==
    /\ call # None /\ call.op = "tonelliShanksLoop" /\ call.at = "factor"
    /\ IF call.q % 2 = 0
       THEN call' = [call EXCEPT !.q = call.q \div 2, !.s = call.s + 1]
       ELSE call' = [call EXCEPT !.at = "z", !.z = 2]
    /\ UNCHANGED <<ret, verifyVars, sec1Vars, sigVars, p1363Vars, pkixVars, concVars>>

\* while (powmod(z, (p - 1n) / 2n, p) !== p - 1n), then the loop variables
TsFindZ ==
    /\ call # None /\ call.op = "tonelliShanksLoop" /\ call.at = "z"
    /\ IF powmod(call.z, (call.p - 1) \div 2, call.p) # call.p - 1
       THEN call' = [call EXCEPT !.z = call.z + 1]
       ELSE call' = [call EXCEPT !.at = "loop",
                                 !.r = powmod(call.n, (call.q + 1) \div 2, call.p),
                                 !.t = powmod(call.n, call.q, call.p),
                                 !.c = powmod(call.z, call.q, call.p),
                                 !.m = call.s]
    /\ UNCHANGED <<ret, verifyVars, sec1Vars, sigVars, p1363Vars, pkixVars, concVars>>

\* one round of while (true) up to the computation of b
TsRound ==
    /\ call # None /\ call.op = "tonelliShanksLoop" /\ call.at = "loop"
    /\ IF call.t = 1
       THEN /\ ret' = Ok(call.r)
            /\ call' = [call EXCEPT !.at = "done", !.rounds = call.rounds + 1]
       ELSE LET i == tsFindI(1, call.t, call.m, call.p)
            IN  IF i = 0
                THEN /\ ret' = Throw("Cannot find square root")
                     /\ call' = [call EXCEPT !.at = "done", !.rounds = call.rounds + 1]
                ELSE /\ ret' = ret
                     /\ call' = [call EXCEPT !.at = "update", !.i = i,
                                               !.b = powmod(call.c, Pow(2, call.m - i - 1), call.p),
                                               !.rounds = call.rounds + 1]
    /\ UNCHANGED <<verifyVars, sec1Vars, sigVars, p1363Vars, pkixVars, concVars>>

\* the end of a round that leaves m as it is
TsUpdate_KeepsM ==
    /\ call # None /\ call.op = "tonelliShanksLoop" /\ call.at = "update"
    /\ call' = [call EXCEPT !.at = "loop",
                            !.c = powmod(call.b, 2, call.p),
                            !.t = euclideanMod(call.t * powmod(call.b, 2, call.p), call.p),
                            !.r = euclideanMod(call.r * call.b, call.p)]
    /\ UNCHANGED <<ret, verifyVars, sec1Vars, sigVars, p1363Vars, pkixVars, concVars>>

\* the end of a round: m, c, t and r for the next one
TsUpdate ==
    /\ call # None /\ call.op = "tonelliShanksLoop" /\ call.at = "update"
    /\ call' = [call EXCEPT !.at = "loop",
                            !.m = call.i,
                            !.c = powmod(call.b, 2, call.p),
                            !.t = euclideanMod(call.t * powmod(call.b, 2, call.p), call.p),
                            !.r = euclideanMod(call.r * call.b, call.p)]
    /\ UNCHANGED <<ret, verifyVars, sec1Vars, sigVars, p1363Vars, pkixVars, concVars>>

NextRoot ==
    \/ TsCall
    \/ TsStart
    \/ TsFactor
    \/ TsFindZ
    \/ TsRound
    \/ TsUpdate

\* a call that has started keeps running
SpecRoot ==
    Init /\ [][NextRoot]_vars /\ WF_vars(TsStart \/ TsFactor \/ TsFindZ \/ TsRound \/ TsUpdate)

(***************************************************************************)
(* Properties of verifyECDSASignature                                      *)
(***************************************************************************)
\* the integer e the hash stands for: its first curve.size bytes, big-endian
hashInteger(c, hash) == bytesValue(slice(hash, 0, c.size))

reducedPoint(c, x, y) == ECDSAPoint(euclideanMod(x, c.p), euclideanMod(y, c.p))

negatedPoint(c, point) == ECDSAPoint(point.x, euclideanMod(-point.y, c.p))

\* the key is rejected by step 1 or step 2: Q is off the curve or n.Q # O
KeyInvalid(publicKey) ==
    LET c == publicKey.curve
    IN  \/ ~satisfiesEquation(c, verifyQ(publicKey))
        \/ multiply(c, c.n, reducedPoint(c, publicKey.x, publicKey.y)) # Ok(Null)

\* (key, hash, signature) comes from reference ECDSA signing with some
\* private key d and nonce k in [1, n-1]
ReferenceSigned(i) ==
    LET c == i.publicKey.curve
        e == hashInteger(c, i.hash)
    IN  /\ i.signature.r < c.n /\ i.signature.s < c.n
        /\ \E d \in 1..(c.n - 1) :
              /\ multiply(c, d, c.g) = Ok(verifyQ(i.publicKey))
              /\ \E k \in 1..(c.n - 1) :
                    LET K == multiply(c, k, c.g)
                        r == K.val.x % c.n
                        s == (inverseMod(k, c.n).val * (e + r * d)) % c.n
                    IN  /\ ~K.thrown /\ K.val # Null
                        /\ r # 0 /\ s # 0
                        /\ i.signature = [r |-> r, s |-> s]

\* the point R = u1.G + u2.Q of an accepted input
acceptedPoint(i) ==
    LET c == i.publicKey.curve
        u1 == verifyU1(i.publicKey, i.hash, i.signature).val
        u2 == verifyU2(i.publicKey, i.signature).val
    IN  add(c, multiply(c, u1, c.g).val, multiply(c, u2, verifyQ(i.publicKey)).val).val

\* C1: verifyECDSASignature never raises; in particular, when the key
\* passes steps 1-2 and s has no inverse modulo n (s = 0 mod n), the call
\* returns false and throws nothing.
C1_NoInverseGivesFalse ==
    (/\ pc = "done"
     /\ ~KeyInvalid(inp.publicKey)
     /\ inp.signature.s % inp.publicKey.curve.n = 0) => vret = "false"

\* C2: completeness: a signature produced by reference ECDSA signing for the
\* key Q = d.G and the digest is accepted.
C2_Completeness ==
    (pc = "done" /\ ReferenceSigned(inp)) => vret = "true"

\* C3: key validation comes first: a key that is off the curve, or whose
\* n.Q is not the identity, gives false for every hash and signature, before
\* any use of the signature.
C3_KeyValidationFirst ==
    (pc = "done" /\ KeyInvalid(inp.publicKey)) => (vret = "false" /\ loc = NoLoc)

RECURSIVE bigEndianSum(_, _)
bigEndianSum(bytes, i) ==
    IF i > Len(bytes) THEN 0
    ELSE bytes[i] * Pow(256, Len(bytes) - i) + bigEndianSum(bytes, i + 1)

firstHalf(c, bytes) == [i \in 1..c.size |-> bytes[i]]
lastHalf(c, bytes) == [i \in 1..c.size |-> bytes[c.size + i]]

\* C5: constructing a signature succeeds exactly when r >= 1 and s >= 1,
\* fails with the construction error otherwise, checks no upper bound, and
\* stores the arguments.
C5_ConstructorContract ==
    sigArgs # None =>
        IF sigArgs.r >= 1 /\ sigArgs.s >= 1
        THEN sig = Ok([r |-> sigArgs.r, s |-> sigArgs.s])
        ELSE sig.thrown /\ sig.err = "Invalid signature"

\* a signature with r and s above the order of every model curve was built
C5_Witness ==
    /\ sigArgs # None /\ ~sig.thrown
    /\ sig.val.r > CurveB.n /\ sig.val.s > CurveB.n

\* C10 as stated: a wrong length raises; the exact length 2.size yields
\* r and s, the values of the two halves.
C10_ExactLengthYieldsHalves ==
    sigBytes # None =>
        LET c == sigBytes.curve
            bytes == sigBytes.bytes
        IN  IF Len(bytes) # 2 * c.size THEN sigDec.thrown
            ELSE sigDec = Ok([r |-> bigEndianSum(firstHalf(c, bytes), 1),
                              s |-> bigEndianSum(lastHalf(c, bytes), 1)])

\* C10 amended: a wrong length raises the size error; the exact length
\* yields the values of the two halves when both are at least 1, and raises
\* the constructor's error when a half is zero.
C10_DecodeIEEEP1363 ==
    sigBytes # None =>
        LET c == sigBytes.curve
            bytes == sigBytes.bytes
        IN  IF Len(bytes) # 2 * c.size
            THEN sigDec.thrown /\ sigDec.err = "Failed to decode signature: Invalid signature size"
            ELSE LET r == bigEndianSum(firstHalf(c, bytes), 1)
                     s == bigEndianSum(lastHalf(c, bytes), 1)
                 IN  IF r >= 1 /\ s >= 1
                     THEN sigDec = Ok([r |-> r, s |-> s])
                     ELSE sigDec.thrown /\ sigDec.err = "Invalid signature"

\* a four-byte buffer was decoded for a two-byte curve, with r above 255
C10_Witness ==
    /\ sigBytes # None /\ sigBytes.curve.size = 2 /\ Len(sigBytes.bytes) = 4
    /\ ~sigDec.thrown /\ sigDec.val.r > 255 /\ sigDec.val.s >= 1

\* C11: encodeIEEEP1363(curve) raises exactly when r or s does not fit in
\* curve.size bytes; otherwise it returns 2 * size bytes, r then s, each
\* big-endian and left-padded with zeros, and decoding them gives r and s back.
C11_EncodeIEEEP1363 ==
    sigEnc # None =>
        LET c == sigEnc.curve
            r == sig.val.r
            s == sig.val.s
            limit == Pow(256, c.size)
        IN  IF r >= limit \/ s >= limit THEN sigEnc.res.thrown
            ELSE /\ ~sigEnc.res.thrown
                 /\ Len(sigEnc.res.val) = 2 * c.size
                 /\ sigEnc.res.val = fixedWidth(r, c.size) \o fixedWidth(s, c.size)
                 /\ sigRound # None => sigRound = Ok([r |-> r, s |-> s])

\* a signature with a two-byte r and a one-byte s went through the encoder
\* and the decoder of a two-byte curve
C11_Witness ==
    /\ sigRound # None /\ ~sigRound.thrown /\ sigEnc.curve.size = 2
    /\ sigRound.val.r > 255 /\ sigRound.val.s < 256

(***************************************************************************)
(* Properties of the SEC1 codec                                            *)
(***************************************************************************)
reducedKey(k) == k.x < k.curve.p /\ k.y < k.curve.p

curveRhs(c, x) == (x * x * x + c.a * x + c.b) % c.p

NonResidue(v, p) == \A y \in 0..(p - 1) : (y * y) % p # v

\* no integer above 1 divides both a and m (m > 0)
coprime(a, m) == \A d \in 2..m : ~(Abs(a) % d = 0 /\ m % d = 0)

Malformed(c, bytes) ==
    \/ Len(bytes) = 0
    \/ /\ Len(bytes) > 0
       /\ \/ bytes[1] \notin {2, 3, 4}
          \/ bytes[1] = 4 /\ Len(bytes) # 2 * c.size + 1
          \/ bytes[1] \in {2, 3} /\ Len(bytes) # c.size + 1

\* C6: SEC1 uncompressed round trip: for 0 <= x, y < p the encoding is
\* 0x04, x and y on size bytes each (2.size+1 bytes), and decoding it
\* returns the same curve, x and y.
C6_UncompressedRoundTrip ==
    (enc # None /\ enc.format = "uncompressed" /\ reducedKey(key)) =>
        /\ ~enc.res.thrown
        /\ Len(enc.res.val) = 2 * key.curve.size + 1
        /\ enc.res.val = <<4>> \o fixedWidth(key.x, key.curve.size) \o fixedWidth(key.y, key.curve.size)
        /\ dec # None => dec.res = Ok(key)

\* a key of a two-byte curve whose x needs two bytes and whose y needs one
\* has been encoded and decoded
C6_Witness ==
    /\ enc # None /\ enc.format = "uncompressed" /\ dec # None
    /\ reducedKey(key) /\ key.curve.size = 2 /\ key.x > 255 /\ key.y < 256
    /\ dec.res = Ok(key)

\* C7: SEC1 compressed round trip: for every on-curve key with
\* 0 <= x, y < p (y = 0 included, p = 1 and p = 3 mod 4), decoding the
\* compressed encoding returns the same x and y.
C7_CompressedRoundTrip ==
    (/\ enc # None /\ enc.format = "compressed" /\ dec # None
     /\ reducedKey(key) /\ satisfiesEquation(key.curve, verifyQ(key))) =>
        dec.res = Ok(key)

\* C8: a compressed encoding whose x has no point on the curve raises an
\* error, for every p.
C8_NonResidueRaises ==
    (/\ dec # None /\ Len(dec.bytes) = dec.curve.size + 1
     /\ dec.bytes[1] \in {2, 3}
     /\ NonResidue(curveRhs(dec.curve, bigEndianSum(Tail(dec.bytes), 1)), dec.curve.p)) =>
        dec.res.thrown

\* C9: an empty input, an unknown first byte, or a length that does not
\* match the first byte raises a decode error.
C9_MalformedRaises ==
    (dec # None /\ Malformed(dec.curve, dec.bytes)) =>
        /\ dec.res.thrown
        /\ dec.res.err \in {"Invalid public key", "Unknown encoding format"}

\* an uncompressed prefix with one byte too few has been decoded
C9_Witness ==
    /\ dec # None /\ Len(dec.bytes) = 2 * dec.curve.size
    /\ dec.bytes[1] = 4 /\ dec.res.thrown

(***************************************************************************)
(* Properties of the PKIX decoders                                         *)
(***************************************************************************)
\* the document has the shape SEQUENCE { SEQUENCE { OBJECT IDENTIFIER ... } ... }
hasAlgorithm(der) ==
    /\ der.root.tag = "SEQUENCE" /\ Len(der.root.items) >= 1
    /\ der.root.items[1].tag = "SEQUENCE" /\ Len(der.root.items[1].items) >= 1
    /\ der.root.items[1].items[1].tag = "OBJECT IDENTIFIER"

algorithmOf(der) == der.root.items[1].items[1].oid

\* C12: a SubjectPublicKeyInfo whose algorithm identifier is not
\* 1.2.840.10045.2.1 makes decodePKIXECDSAPublicKey raise; the decoder never
\* gets to the loop over the candidate curves nor to decodeSEC1PublicKey,
\* whatever the candidate list and the bit string are.
C12_ForeignAlgorithmRejected ==
    (pkIn # None /\ hasAlgorithm(pkIn.bytes) /\ algorithmOf(pkIn.bytes) # ECPublicKeyOID) =>
        /\ pkPc \notin {"matchCurves", "decodeSEC1"}
        /\ pkPc = "done" => pkRet.thrown

\* an RSA-tagged document naming CurveA and carrying CurveA's generator was
\* rejected although CurveA is the first candidate
C12_Witness ==
    /\ pkPc = "done" /\ pkIn.bytes.leftover = 0
    /\ hasAlgorithm(pkIn.bytes) /\ algorithmOf(pkIn.bytes) = RSAEncryptionOID
    /\ Len(pkIn.bytes.root.items[1].items) = 2
    /\ pkIn.bytes.root.items[1].items[2] = ASN1ObjectIdentifier(CurveA.objectIdentifier)
    /\ Len(pkIn.bytes.root.items) = 2
    /\ pkIn.bytes.root.items[2] = ASN1BitString(<<4, 0, 1>>, 24)
    /\ Len(pkIn.curves) >= 1 /\ pkIn.curves[1] = CurveA
    /\ pkRet = Throw("Invalid algorithm")

\* indices of the candidates whose object identifier is the encoded one
matchingCandidates(parameter, candidates) ==
    {i \in 1..Len(candidates) : candidates[i].objectIdentifier = parameter}

firstOf(indices) == CHOOSE i \in indices : \A j \in indices : i <= j

\* C13: decodePKIXECDSAPublicKey returns decodeSEC1PublicKey for the first
\* candidate whose object identifier equals the encoded curve identifier and
\* fails when no candidate matches (the empty list included); decoding
\* encodePKIXUncompressed(pub) or encodePKIXCompressed(pub) with pub.curve
\* among the candidates returns a key tagged with that first matching curve.
C13_FirstMatchingCurve ==
    (/\ pkPc = "done"
     /\ ~parseSubjectPublicKeyInfo(pkIn.bytes).thrown
     /\ algorithmOf(pkIn.bytes) = ECPublicKeyOID) =>
        LET fields == parseSubjectPublicKeyInfo(pkIn.bytes).val
            matches == matchingCandidates(fields.algorithmIdentifierParameter, pkIn.curves)
        IN  IF matches = {} THEN pkRet.thrown
            ELSE /\ pkRet = decodeSEC1PublicKey(pkIn.curves[firstOf(matches)],
                                                fields.asn1PublicKey)
                 /\ \A pub \in PKIXKeys :
                       (/\ \E i \in 1..Len(pkIn.curves) : pkIn.curves[i] = pub.curve
                        /\ pkIn.bytes \in {encodePKIXUncompressed(pub).val,
                                           encodePKIXCompressed(pub).val}) =>
                           /\ ~pkRet.thrown
                           /\ pkRet.val.curve = pkIn.curves[firstOf(matches)]

\* C14: decodePKIXECDSASignature raises one and the same error for every
\* failure (document that does not parse, trailing bytes, not a SEQUENCE,
\* missing or non-INTEGER element, r < 1 or s < 1) and otherwise returns the
\* encoded (r, s).
C14_SingleDecodeError ==
    dsIn # None =>
        LET items == dsIn.root.items
            good == /\ dsIn.root.tag = "SEQUENCE" /\ dsIn.leftover = 0
                    /\ Len(items) >= 2
                    /\ items[1].tag = "INTEGER" /\ items[2].tag = "INTEGER"
                    /\ items[1].int >= 1 /\ items[2].int >= 1
        IN  IF good THEN dsRet = Ok([r |-> items[1].int, s |-> items[2].int])
            ELSE dsRet = Throw("Failed to decode signature")

\* a well-formed SEQUENCE { INTEGER 0, INTEGER 1 } was refused with the
\* decoder's own error
C14_Witness ==
    /\ dsIn # None /\ dsIn.leftover = 0
    /\ dsIn.root = ASN1EncodableSequence(<<ASN1Integer(0), ASN1Integer(1)>>)
    /\ dsRet = Throw("Failed to decode signature")

(***************************************************************************)
(* Properties of the curve operations and of the field arithmetic          *)
(***************************************************************************)
\* C15: for an on-curve point P with reduced coordinates, multiply(0, P) is
\* the identity (null) and multiply(1, P) is P; multiply(n, g) is the
\* identity.
C15_MultiplyBoundaries ==
    (/\ call # None /\ call.op = "multiply"
     /\ call.point.x < call.curve.p /\ call.point.y < call.curve.p) =>
        /\ call.k = 0 => ret = Ok(Null)
        /\ call.k = 1 => ret = Ok(call.point)
        /\ (call.k = call.curve.n /\ call.point = call.curve.g) => ret = Ok(Null)

\* the generator of CurveB was multiplied by the order and gave the identity
C15_Witness ==
    /\ call # None /\ call.op = "multiply" /\ call.curve = CurveB
    /\ call.k = CurveB.n /\ call.point = CurveB.g /\ ret = Ok(Null)

\* C16: for an odd prime p and an integer x, tonelliShanks(x^2 mod p, p)
\* returns r with r = x mod p or r = p - (x mod p), and does not raise;
\* x = 0 mod p and p = 1 mod 4 are included.
C16_RootOfSquare ==
    (call # None /\ call.op = "tonelliShanks") =>
        /\ ~ret.thrown
        /\ \/ ret.val = call.x % call.p
           \/ ret.val = call.p - (call.x % call.p)

\* C21: for every odd prime p and every n in [1, p) that is a quadratic
\* non-residue modulo p, tonelliShanks(n, p) raises, on the p = 3 (mod 4)
\* path and on the general path; it never returns r with r^2 # n (mod p).
C21_NonResidueRaises ==
    (/\ call # None /\ call.op = "tonelliShanksOf"
     /\ call.n >= 1 /\ NonResidue(call.n, call.p)) => ret.thrown

\* on the general path (p = 1 mod 4) a non-residue makes the call raise
C21_GeneralPathRaises ==
    (/\ call # None /\ call.op = "tonelliShanksOf"
     /\ call.p % 4 = 1
     /\ call.n >= 1 /\ NonResidue(call.n, call.p)) => ret.thrown

\* C22: for n # 0, inverseMod(a, n) returns s with 0 <= s < |n| and
\* a * s = 1 (mod |n|) when gcd(a, |n|) = 1 and |n| > 1, for negative a, for
\* a >= |n| and for a in [0, |n|); it raises when gcd(a, |n|) # 1.
C22_InverseMod ==
    (call # None /\ call.op = "inverseMod") =>
        LET m == Abs(call.n)
        IN  IF coprime(call.a, m)
            THEN m > 1 =>
                    /\ ~ret.thrown
                    /\ 0 <= ret.val /\ ret.val < m
                    /\ euclideanMod(call.a * ret.val, m) = 1
            ELSE ret.thrown

\* the inverse of a negative operand modulo a negative modulus was returned
C22_Witness ==
    /\ call # None /\ call.op = "inverseMod"
    /\ call.a = -3 /\ call.n = -7 /\ ret = Ok(2)

\* the group law of the curve in affine coordinates, on reduced points and
\* Null: the chord and tangent formulas with the inverse found by search
fieldInverse(v, p) == CHOOSE w \in 1..(p - 1) : (v * w) % p = 1

fieldElement(v, p) == ((v % p) + p) % p

groupAdd(c, P, Q) ==
    IF P = Null THEN Q
    ELSE IF Q = Null THEN P
    ELSE IF P.x = Q.x /\ (P.y + Q.y) % c.p = 0 THEN Null
    ELSE LET lambda == IF P = Q
                       THEN ((3 * P.x * P.x + c.a) * fieldInverse(fieldElement(2 * P.y, c.p), c.p)) % c.p
                       ELSE (fieldElement(Q.y - P.y, c.p)
                                * fieldInverse(fieldElement(Q.x - P.x, c.p), c.p)) % c.p
             x3 == fieldElement(lambda * lambda - P.x - Q.x, c.p)
         IN  ECDSAPoint(x3, fieldElement(lambda * (P.x - x3) - P.y, c.p))

\* P + ... + P, k times, summed as two halves; Null for k = 0
RECURSIVE groupMultiple(_, _, _)
groupMultiple(c, k, P) ==
    IF k = 0 THEN Null
    ELSE IF k = 1 THEN P
    ELSE groupAdd(c, groupMultiple(c, k \div 2, P), groupMultiple(c, k - (k \div 2), P))

isReduced(c, point) == point.x < c.p /\ point.y < c.p

\* C23: for on-curve points P and Q with reduced coordinates, add(P, Q) is
\* the identity (null) exactly when Q = -P = (P.x, (p - P.y) mod p), and
\* add(P, P) equals double(P); inside addJacobian an identity operand makes
\* the result the other operand, unchanged.
C23_AddSpecialCases ==
    /\ (/\ call # None /\ call.op = "add"
        /\ isReduced(call.curve, call.point1) /\ isReduced(call.curve, call.point2)) =>
           /\ ret = Ok(Null) <=> call.point2 = negatedPoint(call.curve, call.point1)
           /\ call.point1 = call.point2 => ret = double(call.curve, call.point1)
    /\ (call # None /\ call.op = "addJacobian") =>
           /\ isAtInfinity(call.point1) => ret = Ok(call.point2)
           /\ isAtInfinity(call.point2) => ret = Ok(call.point1)

\* a point of order above 2 was added to its negation and gave the identity
C23_Witness ==
    /\ call # None /\ call.op = "add" /\ call.curve = CurveB
    /\ call.point1 = ECDSAPoint(6, 2) /\ call.point2 = ECDSAPoint(6, 9)
    /\ ret = Ok(Null)

\* a point was added to itself and the sum is a point
C23_WitnessDouble ==
    /\ call # None /\ call.op = "add" /\ isReduced(call.curve, call.point1)
    /\ call.point1 = call.point2 /\ ~ret.thrown /\ ret.val # Null

\* C24: doubling the identity yields the identity; double(P) returns the
\* identity (null, and no error) for every point whose affine y is 0 modulo
\* p, also when y is given unreduced as y = p; for every other on-curve P
\* it returns 2P.
C24_Double ==
    /\ (call # None /\ call.op = "doubleJacobian" /\ isAtInfinity(call.point)) =>
           ret = Ok(pointAtInfinity)
    /\ (call # None /\ call.op = "double") =>
           IF call.point.y % call.curve.p = 0 THEN ret = Ok(Null)
           ELSE LET P == reducedPoint(call.curve, call.point.x, call.point.y)
                IN  ret = Ok(groupAdd(call.curve, P, P))

\* the same with reduced coordinates only
C24_DoubleOfReduced ==
    (call # None /\ call.op = "double" /\ isReduced(call.curve, call.point)) =>
        IF call.point.y = 0 THEN ret = Ok(Null)
        ELSE ret = Ok(groupAdd(call.curve, call.point, call.point))

\* C25: for every k >= 0, also k above the order of P and k of more than
\* one byte, and every on-curve point P with reduced coordinates,
\* multiply(k, P) equals the k-fold affine sum P + ... + P, the identity for
\* k = 0.
C25_MultiplyIsRepeatedAddition ==
    (/\ call # None /\ call.op \in {"multiply", "multiplyLoop"} /\ ret # None
     /\ isReduced(call.curve, call.point)) =>
        ret = Ok(groupMultiple(call.curve, call.k, call.point))

\* the generator of CurveB, of order 7, was multiplied by the two-byte
\* scalar 257 and gave 5G
C25_Witness ==
    /\ call # None /\ call.op = "multiply" /\ call.curve = CurveB
    /\ call.k = 257 /\ call.point = CurveB.g
    /\ ret = Ok(groupMultiple(CurveB, 5, CurveB.g)) /\ ret.val # Null

\* the point satisfies y^2 = x^3 + ax + b modulo p
onCurve(c, point) == (point.y * point.y) % c.p = curveRhs(c, point.x)

\* C26: isOnCurve(P) returns true exactly when P satisfies the curve
\* equation and, on a curve whose cofactor is not 1, n.P is the identity;
\* with cofactor 1 the result is that of the equation alone and no scalar
\* multiplication is performed.
C26_IsOnCurve ==
    (call # None /\ call.op = "isOnCurve") =>
        /\ ret # None =>
               (ret = Ok(TRUE) <=>
                   /\ onCurve(call.curve, call.point)
                   /\ call.curve.cofactor # 1 =>
                          groupMultiple(call.curve, call.curve.n,
                                        reducedPoint(call.curve, call.point.x, call.point.y)) = Null)
        /\ call.curve.cofactor = 1 =>
               /\ call.at = "equation"
               /\ ret # None => ret = Ok(onCurve(call.curve, call.point))

\* on the curve of cofactor 2 a point of the subgroup of order n was
\* accepted after the multiplication by n
C26_Witness ==
    /\ call # None /\ call.op = "isOnCurve" /\ call.curve = CurveC
    /\ call.at = "multiplied, equation" /\ ret = Ok(TRUE)

\* on the curve of cofactor 2 a point that satisfies the equation was
\* rejected by the multiplication by n
C26_WitnessOutsideSubgroup ==
    /\ call # None /\ call.op = "isOnCurve" /\ call.curve = CurveC
    /\ onCurve(CurveC, call.point) /\ call.at = "multiplied" /\ ret = Ok(FALSE)

\* a Jacobian point with Z = 0 modulo p is the triple (0, 1, 0)
canonical(c, point) == point.z % c.p = 0 => point = pointAtInfinity

\* the affine operands of the current call
operandsOf(c) ==
    IF c.op = "add" THEN {c.point1, c.point2} ELSE {c.point}

\* C27: over any sequence of add, double and multiply calls on on-curve
\* inputs, every Jacobian point produced by addJacobian or doubleJacobian
\* whose Z is 0 modulo p is exactly (0, 1, 0); toAffine therefore returns
\* the identity whenever Z = 0 and never calls inverseMod on such a Z (the
\* call does not raise).
C27_CanonicalIdentity ==
    (call # None /\ call.op \in {"add", "double", "multiplyLoop"}) =>
        /\ call.op \in {"add", "double"} =>
               /\ canonical(call.curve, call.jacobian)
               /\ ~ret.thrown
               /\ call.jacobian.z % call.curve.p = 0 => ret = Ok(Null)
        /\ call.op = "multiplyLoop" =>
               /\ canonical(call.curve, call.res)
               /\ canonical(call.curve, call.temp)
               /\ ret # None =>
                      /\ ~ret.thrown
                      /\ call.res.z % call.curve.p = 0 => ret = Ok(Null)

\* the same for calls whose operands have reduced coordinates
C27_CanonicalIdentityOfReduced ==
    (/\ call # None /\ call.op \in {"add", "double", "multiplyLoop"}
     /\ \A point \in operandsOf(call) : isReduced(call.curve, point)) =>
        /\ call.op \in {"add", "double"} =>
               /\ canonical(call.curve, call.jacobian)
               /\ ~ret.thrown
               /\ call.jacobian.z % call.curve.p = 0 => ret = Ok(Null)
        /\ call.op = "multiplyLoop" =>
               /\ canonical(call.curve, call.res)
               /\ canonical(call.curve, call.temp)
               /\ ret # None =>
                      /\ ~ret.thrown
                      /\ call.res.z % call.curve.p = 0 => ret = Ok(Null)

\* C28: for every curve, all on-curve points P and Q and every scalar
\* k >= 0, each of add(P, Q), double(P) and multiply(k, P) is the identity
\* (null) or an affine point with 0 <= x, y < p that satisfies the curve
\* equation.
C28_Closure ==
    (call # None /\ call.op \in {"add", "double", "multiplyLoop", "multiply"} /\ ret # None) =>
        /\ ~ret.thrown
        /\ \/ ret.val = Null
           \/ /\ 0 <= ret.val.x /\ 0 <= ret.val.y /\ isReduced(call.curve, ret.val)
              /\ onCurve(call.curve, ret.val)

\* the same for calls whose operands have reduced coordinates
C28_ClosureOfReduced ==
    (/\ call # None /\ call.op \in {"add", "double", "multiplyLoop", "multiply"} /\ ret # None
     /\ \A point \in operandsOf(call) : isReduced(call.curve, point)) =>
        /\ ~ret.thrown
        /\ \/ ret.val = Null
           \/ /\ 0 <= ret.val.x /\ 0 <= ret.val.y /\ isReduced(call.curve, ret.val)
              /\ onCurve(call.curve, ret.val)

\* the search for z stays below p, and the rounds of the main loop number
\* at most s, where p - 1 = q * 2^s
TsBounded ==
    (call # None /\ call.op = "tonelliShanksLoop") =>
        /\ call.at = "z" => call.z < call.p
        /\ call.at \in {"loop", "update", "done"} => call.rounds <= call.s
        /\ call.at = "done" => ret = tonelliShanks(call.n, call.p)

\* a round of the main loop that neither returns nor raises lowers m
TsDecreases ==
    (/\ call # None /\ call.op = "tonelliShanksLoop" /\ call.at = "update"
     /\ call'.at = "loop") => (call'.m < call.m /\ call'.m >= 1)

\* C30: tonelliShanks terminates for every odd prime p and every n in
\* [0, p): the search for the non-residue z ends, M strictly decreases on
\* every round of the main loop that does not return or raise, and the loop
\* ends after at most s rounds where p - 1 = q * 2^s.
C30_Terminates ==
    /\ []TsBounded
    /\ [][TsDecreases]_vars
    /\ (call # None /\ call.op = "tonelliShanksLoop") ~> (ret # None)

\* a call returned a root in the third round of its main loop
C30_Witness ==
    /\ call # None /\ call.op = "tonelliShanksLoop" /\ call.at = "done"
    /\ call.rounds = 3 /\ ~ret.thrown
    /\ (ret.val * ret.val) % call.p = call.n

(***************************************************************************)
(* Properties of verifyECDSASignature: steps 3 to 9                        *)
(***************************************************************************)
\* C18: when the comparison of step 9 is reached (the key passed steps 1-2,
\* s is invertible and none of u1.G, u2.Q, R is the identity), the call
\* returns true exactly when r mod n = R.x mod n, also when R.x >= n.
C18_AcceptanceRule ==
    (pc = "done" /\ loc.coord1 # Null) =>
        (vret = "true" <=>
            inp.signature.r % inp.publicKey.curve.n = loc.coord1.x % inp.publicKey.curve.n)

\* C19: with a key that passes steps 1-2 and an invertible s, the call
\* returns false (it neither raises nor returns true) when u1.G is the
\* identity (e = 0 mod n), when u2.Q is the identity (r = 0 mod n), and when
\* R = u1.G + u2.Q is the identity.
C19_IdentityGivesFalse ==
    (/\ pc = "done"
     /\ inp.signature.s % inp.publicKey.curve.n # 0
     /\ \/ hashInteger(inp.publicKey.curve, inp.hash) % inp.publicKey.curve.n = 0
        \/ inp.signature.r % inp.publicKey.curve.n = 0
        \/ /\ loc.u1G # Null /\ loc.u2Q # Null
           /\ loc.u2Q = negatedPoint(inp.publicKey.curve, loc.u1G)
     /\ verifyIsOnCurve(inp.publicKey) = Ok(TRUE)
     /\ verifySubgroup(inp.publicKey) = Ok(Null)) => vret = "false"

\* u1.G and u2.Q were both computed, are opposite points, and the call
\* returned false
C19_Witness ==
    /\ pc = "done" /\ vret = "false"
    /\ loc.u1G # Null /\ loc.u2Q # Null
    /\ loc.u2Q = negatedPoint(inp.publicKey.curve, loc.u1G)

\* what a call of verifyECDSASignature gives: "true", "false" or "throw"
outcomeOf(publicKey, hash, signature) ==
    LET res == verifyECDSASignature(publicKey, hash, signature)
    IN  IF res.thrown THEN "throw" ELSE IF res.val THEN "true" ELSE "false"

leadingBytes(hash, size) ==
    [i \in 1..(IF Len(hash) < size THEN Len(hash) ELSE size) |-> hash[i]]

\* the shortest hash whose big-endian integer is e
shortestDigest(e) ==
    LET w == CHOOSE v \in 1..(MaxDigestLen + 1) :
                 e < Pow(256, v) /\ (v = 1 \/ e >= Pow(256, v - 1))
    IN  fixedWidth(e, w)

\* C20: the result depends on the hash only through the big-endian integer e
\* of its first curve.size bytes: u1 is e times the inverse of s, and the
\* call returns what it returns on the shortest hash whose integer is e, so
\* hashes that agree on their first curve.size bytes give the same result
\* and a hash shorter than curve.size is taken whole, without padding.
C20_HashTruncation ==
    pc = "done" =>
        LET c == inp.publicKey.curve
            e == bigEndianSum(leadingBytes(inp.hash, c.size), 1)
            res == verifyECDSASignature(inp.publicKey, shortestDigest(e), inp.signature)
        IN  /\ loc.u1 # -1 => (loc.u1 * inp.signature.s) % c.n = e % c.n
            /\ IF res.thrown THEN vret = "throw"
               ELSE vret = (IF res.val THEN "true" ELSE "false")

\* a one-byte hash was accepted on the curve with two-byte field elements
C20_Witness ==
    /\ pc = "done" /\ vret = "true"
    /\ inp.publicKey.curve = CurveF /\ Len(inp.hash) = 1 /\ inp.hash[1] > 0

(***************************************************************************)
(* Properties of concurrent verification                                   *)
(***************************************************************************)
\* C17: no statement of a verification writes the shared curve or key, so
\* under every interleaving of the callers' statements the shared key keeps
\* the value it had at each call and every call returns what the same call
\* returns when it runs alone.
C17_NoInterference ==
    \A i \in Procs :
        cin[i] # None =>
            /\ heap = cin[i].publicKey
            /\ cpc[i] = "done" =>
                  LET alone == verifyECDSASignature(cin[i].publicKey, cin[i].hash,
                                                    cin[i].signature)
                  IN  IF alone.thrown THEN cret[i] = "throw"
                      ELSE cret[i] = (IF alone.val THEN "true" ELSE "false")

\* caller 1 has returned true while caller 2, on the same key with another
\* signature, is in the middle of its call
C17_Witness ==
    /\ cpc[1] = "done" /\ cret[1] = "true"
    /\ cpc[2] = "u2Q" /\ cin[2].signature # cin[1].signature

====
